---- MODULE Spec2Model ----
(***************************************************************************)
(* Model of the validation run of data-alchemist's ValidationTab           *)
(* (runValidations) over the DataContext collections clients, workers,     *)
(* tasks and rules.                                                        *)
(*                                                                         *)
(* Texts.  A string is a sequence of tokens.  A token is an atom the code  *)
(* never looks inside: an identifier or skill name ("T1", "rust"), a       *)
(* decimal numeral ("0", "12"), or one of the characters the code splits   *)
(* or parses on ("," " " "[" "]" "-" "{" "}").  "m" stands for one         *)
(* well-formed member of a JSON object and "x" for a character no JSON     *)
(* text and no range can contain.  The empty string is <<>>.               *)
(*                                                                         *)
(* A field of a record is [t, s, n]: t = "str" with the text s, t = "num"  *)
(* with the number n (what an XLSX cell yields, DataIngestionTab.tsx       *)
(* 121-131), or t = "absent" (undefined, a column the mapping left out).   *)
(* Identifier fields and WorkerGroup are TLA+ strings, "" when empty, and  *)
(* numeric fields are integers (DataIngestionTab.tsx 180-183).             *)
(*                                                                         *)
(* A rule's config has the shapes the casts of the validation run give it  *)
(* (ValidationTab.tsx 1143, 1207, 1212-1213, 1242-1243): tasks and         *)
(* allowedPhases are arrays or absent (hasTasks, hasPhases), workerGroup   *)
(* and taskId are strings, maxSlots is an integer.                         *)
(***************************************************************************)
EXTENDS Integers, Sequences, FiniteSets, TLC

\* ------------------------------------------------------------------ bounds

\* Largest numeral that occurs in a text.
MaxNum == 3
\* Number of validation runs (button clicks) in one behaviour.
MaxRuns == 2

\* --------------------------------------------------------------- sequences

Range(s) == {s[i] : i \in 1..Len(s)}

\* Array.prototype.includes / Array.prototype.indexOf (0 when not found).
Includes(s, x) == \E i \in 1..Len(s) : s[i] = x

IndexOf(s, x) ==
  IF Includes(s, x) THEN CHOOSE i \in 1..Len(s) : s[i] = x /\ \A j \in 1..(i - 1) : s[j] # x
  ELSE 0

\* Array.prototype.filter for an index predicate given as the set of kept indices.
RECURSIVE KeepIdx(_, _, _)
KeepIdx(s, keep, i) ==
  IF i > Len(s) THEN <<>>
  ELSE (IF i \in keep THEN <<s[i]>> ELSE <<>>) \o KeepIdx(s, keep, i + 1)

RECURSIVE Flatten(_)
Flatten(ss) == IF ss = <<>> THEN <<>> ELSE Head(ss) \o Flatten(Tail(ss))

RECURSIVE SumSeq(_)
SumSeq(s) == IF s = <<>> THEN 0 ELSE Head(s) + SumSeq(Tail(s))

\* Insertion order of a JavaScript Set or of the keys of a Map: first occurrences.
Distinct(s) == KeepIdx(s, {i \in 1..Len(s) : \A j \in 1..(i - 1) : s[j] # s[i]}, 1)

\* All sequences over S of length at most n.
SeqsUpTo(S, n) == UNION {[1..k -> S] : k \in 0..n}

\* ------------------------------------------------------------------- texts

Numeral(n) == ToString(n)
IsNumeral(t) == \E n \in 0..MaxNum : Numeral(n) = t
\* parseInt of a numeral.
ParseInt(t) == CHOOSE n \in 0..MaxNum : Numeral(n) = t

\* String(n) for a JavaScript number n.
NumberText(n) == IF n < 0 THEN <<"-", Numeral(0 - n)>> ELSE <<Numeral(n)>>

\* The text of an identifier.
IdText(id) == IF id = "" THEN <<>> ELSE <<id>>

\* String.prototype.split(','): the parts between the commas.
RECURSIVE SplitFrom(_, _, _)
SplitFrom(s, i, cur) ==
  IF i > Len(s) THEN <<cur>>
  ELSE IF s[i] = "," THEN <<cur>> \o SplitFrom(s, i + 1, <<>>)
  ELSE SplitFrom(s, i + 1, Append(cur, s[i]))

Split(s) == SplitFrom(s, 1, <<>>)

\* String.prototype.trim.
RECURSIVE TrimLeft(_)
TrimLeft(s) == IF s # <<>> /\ Head(s) = " " THEN TrimLeft(Tail(s)) ELSE s

RECURSIVE TrimRight(_)
TrimRight(s) ==
  IF s # <<>> /\ s[Len(s)] = " " THEN TrimRight(SubSeq(s, 1, Len(s) - 1)) ELSE s

Trim(s) == TrimRight(TrimLeft(s))

SplitTrim(s) == [i \in 1..Len(Split(s)) |-> Trim(Split(s)[i])]

\* JSON.parse.  The result is [ok, kind, arr, num]: ok = FALSE when JSON.parse
\* throws; kind is "array" (arr its numbers), "number" (num) or "object".
JsonThrow == [ok |-> FALSE, kind |-> "none", arr |-> <<>>, num |-> 0]
JsonArray(a) == [ok |-> TRUE, kind |-> "array", arr |-> a, num |-> 0]
JsonNumber(n) == [ok |-> TRUE, kind |-> "number", arr |-> <<>>, num |-> n]
JsonObject == [ok |-> TRUE, kind |-> "object", arr |-> <<>>, num |-> 0]

\* A JSON number starting at token i: [ok, v, next].
NumberAt(s, i) ==
  IF i <= Len(s) /\ IsNumeral(s[i]) THEN [ok |-> TRUE, v |-> ParseInt(s[i]), next |-> i + 1]
  ELSE IF i + 1 <= Len(s) /\ s[i] = "-" /\ IsNumeral(s[i + 1])
       THEN [ok |-> TRUE, v |-> 0 - ParseInt(s[i + 1]), next |-> i + 2]
       ELSE [ok |-> FALSE, v |-> 0, next |-> i]

RECURSIVE ArrayFrom(_, _, _)
ArrayFrom(s, i, acc) ==
  LET e == NumberAt(s, i) IN
  IF ~e.ok \/ e.next > Len(s) THEN JsonThrow
  ELSE IF s[e.next] = "]" THEN (IF e.next = Len(s) THEN JsonArray(Append(acc, e.v)) ELSE JsonThrow)
  ELSE IF s[e.next] = "," THEN ArrayFrom(s, e.next + 1, Append(acc, e.v))
  ELSE JsonThrow

RECURSIVE MembersFrom(_, _)
MembersFrom(s, i) ==
  IF i + 1 > Len(s) \/ s[i] # "m" THEN JsonThrow
  ELSE IF s[i + 1] = "}" THEN (IF i + 1 = Len(s) THEN JsonObject ELSE JsonThrow)
  ELSE IF s[i + 1] = "," THEN MembersFrom(s, i + 2)
  ELSE JsonThrow

JsonParseText(s) ==
  IF s = <<>> THEN JsonThrow
  ELSE IF s[1] = "[" THEN (IF s = <<"[", "]">> THEN JsonArray(<<>>) ELSE ArrayFrom(s, 2, <<>>))
  ELSE IF s[1] = "{" THEN (IF s = <<"{", "}">> THEN JsonObject ELSE MembersFrom(s, 2))
  ELSE LET e == NumberAt(s, 1) IN
       IF e.ok /\ e.next = Len(s) + 1 THEN JsonNumber(e.v) ELSE JsonThrow

\* ------------------------------------------------------------------ fields

Absent == [t |-> "absent", s |-> <<>>, n |-> 0]
Str(s) == [t |-> "str", s |-> s, n |-> 0]
Num(n) == [t |-> "num", s |-> <<>>, n |-> n]

\* JavaScript truthiness of a field value.
Truthy(f) == (f.t = "str" /\ f.s # <<>>) \/ (f.t = "num" /\ f.n # 0)

\* JSON.parse(f): the argument is converted to a string first; "undefined" is no JSON.
JsonParse(f) ==
  IF f.t = "str" THEN JsonParseText(f.s)
  ELSE IF f.t = "num" THEN JsonNumber(f.n)
  ELSE JsonThrow

\* f.split(...) and f.match(...) exist on strings only: a TypeError otherwise.
HasStringMethods(f) == f.t = "str"

\* /^(\d+)-(\d+)$/
RangeMatch(s) == Len(s) = 3 /\ IsNumeral(s[1]) /\ s[2] = "-" /\ IsNumeral(s[3])

\* Array.from({ length: end - start + 1 }, (_, i) => start + i)
RangeExpand(s) ==
  LET start == ParseInt(s[1])
      end == ParseInt(s[3])
  IN [i \in 1..(end - start + 1) |-> start + i - 1]

\* ---------------------------------------------------------------- findings

\* A ValidationError.  entity is [kind, id, num] for the template strings
\* `Client ${id}`, `Client row ${n}`, `Phase ${n}`, `Rule Conflict: ${name}`;
\* msg is [text, parts, nums]: the fixed wording and the values spliced into it.
Entity(kind, id, num) == [kind |-> kind, id |-> id, num |-> num]
Msg(text, parts, nums) == [text |-> text, parts |-> parts, nums |-> nums]
Finding(type, msg, entity, field, severity) ==
  [type |-> type, message |-> msg, entity |-> entity, field |-> field, severity |-> severity]

\* errors.filter(e => e.type === type)
OfType(errs, type) == KeepIdx(errs, {i \in 1..Len(errs) : errs[i].type = type}, 1)

\* One list of findings per element of s, concatenated in order (forEach + push).
ForEach(s, Body(_, _)) == Flatten([i \in 1..Len(s) |-> Body(s[i], i)])

\* ---------------------------------------------------- stages 1-4: schema

MissingIdOne(kind, fieldName, id, index) ==
  IF id = ""
  THEN <<Finding("missing_id", Msg("Missing " \o fieldName, <<>>, <<>>),
                 Entity(kind \o " row", "", index), fieldName, "error")>>
  ELSE <<>>

MissingIds(clients, workers, tasks) ==
  LET C(c, i) == MissingIdOne("Client", "ClientID", c.ClientID, i)
      W(w, i) == MissingIdOne("Worker", "WorkerID", w.WorkerID, i)
      T(t, i) == MissingIdOne("Task", "TaskID", t.TaskID, i)
  IN ForEach(clients, C) \o ForEach(workers, W) \o ForEach(tasks, T)

\* One finding per duplicated value instead of one per repeated occurrence.
DuplicatesOfOnce(ids, fieldName, entityName) ==
  LET dup == Distinct(KeepIdx(ids, {i \in 1..Len(ids) : IndexOf(ids, ids[i]) # i}, 1))
      D(id, i) == <<Finding("duplicate_id", Msg("Duplicate " \o fieldName, <<id>>, <<>>),
                            Entity(entityName, "", 0), "", "error")>>
  IN ForEach(dup, D)

\* ids.filter((id, index) => ids.indexOf(id) !== index), one finding per kept id.
DuplicatesOf(ids, fieldName, entityName) ==
  LET dup == KeepIdx(ids, {i \in 1..Len(ids) : IndexOf(ids, ids[i]) # i}, 1)
      D(id, i) == <<Finding("duplicate_id", Msg("Duplicate " \o fieldName, <<id>>, <<>>),
                            Entity(entityName, "", 0), "", "error")>>
  IN ForEach(dup, D)

DuplicateIds(clients, workers, tasks) ==
  DuplicatesOf([i \in 1..Len(clients) |-> clients[i].ClientID], "ClientID", "Clients")
  \o DuplicatesOf([i \in 1..Len(workers) |-> workers[i].WorkerID], "WorkerID", "Workers")
  \o DuplicatesOf([i \in 1..Len(tasks) |-> tasks[i].TaskID], "TaskID", "Tasks")

PriorityMin == 1
PriorityMax == 5

InvalidRanges(clients) ==
  LET C(c, i) ==
        IF c.PriorityLevel < PriorityMin \/ c.PriorityLevel > PriorityMax
        THEN <<Finding("invalid_range", Msg("PriorityLevel must be between 1-5", <<>>, <<c.PriorityLevel>>),
                       Entity("Client", c.ClientID, 0), "PriorityLevel", "error")>>
        ELSE <<>>
  IN ForEach(clients, C)

InvalidDurations(tasks) ==
  LET T(t, i) ==
        IF t.Duration < 1
        THEN <<Finding("invalid_duration", Msg("Duration must be >= 1", <<>>, <<t.Duration>>),
                       Entity("Task", t.TaskID, 0), "Duration", "error")>>
        ELSE <<>>
  IN ForEach(tasks, T)

\* ------------------------------------------- stage 5: unknown references

\* The reference check on the tokens as split, without id.trim().
UnknownReferencesUntrimmed(clients, tasks) ==
  LET existingTaskIds == [i \in 1..Len(tasks) |-> IdText(tasks[i].TaskID)]
      R(taskId, j, c) ==
        IF taskId # <<>> /\ ~Includes(existingTaskIds, taskId)
        THEN <<Finding("unknown_reference", Msg("Referenced TaskID does not exist", taskId, <<>>),
                       Entity("Client", c.ClientID, 0), "RequestedTaskIDs", "error")>>
        ELSE <<>>
      C(c, i) ==
        IF Truthy(c.RequestedTaskIDs)
        THEN LET requestedTasks == Split(c.RequestedTaskIDs.s)
                 P(taskId, j) == R(taskId, j, c)
             IN ForEach(requestedTasks, P)
        ELSE <<>>
  IN ForEach(clients, C)

UnknownReferences(clients, tasks) ==
  LET existingTaskIds == [i \in 1..Len(tasks) |-> IdText(tasks[i].TaskID)]
      R(taskId, j, c) ==
        IF taskId # <<>> /\ ~Includes(existingTaskIds, taskId)
        THEN <<Finding("unknown_reference", Msg("Referenced TaskID does not exist", taskId, <<>>),
                       Entity("Client", c.ClientID, 0), "RequestedTaskIDs", "error")>>
        ELSE <<>>
      C(c, i) ==
        IF Truthy(c.RequestedTaskIDs)
        THEN LET requestedTasks == SplitTrim(c.RequestedTaskIDs.s)
                 P(taskId, j) == R(taskId, j, c)
             IN ForEach(requestedTasks, P)
        ELSE <<>>
  IN ForEach(clients, C)

\* ---------------------------------------------- stage 6: skill coverage

\* The skills collected in a list that keeps repetitions instead of a Set.
SkillSetRepeating(fields) ==
  LET S(f, i) == IF Truthy(f) THEN SplitTrim(f.s) ELSE <<>>
  IN ForEach(fields, S)

\* The Set built by split(',').forEach(skill => set.add(skill.trim())), in insertion order.
SkillSet(fields) ==
  LET S(f, i) == IF Truthy(f) THEN SplitTrim(f.s) ELSE <<>>
  IN Distinct(ForEach(fields, S))

MissingSkills(workers, tasks) ==
  LET allRequiredSkills == SkillSet([i \in 1..Len(tasks) |-> tasks[i].RequiredSkills])
      allWorkerSkills == SkillSet([i \in 1..Len(workers) |-> workers[i].Skills])
      S(skill, i) ==
        IF ~Includes(allWorkerSkills, skill)
        THEN <<Finding("missing_skill", Msg("No worker has required skill", skill, <<>>),
                       Entity("Skills Coverage", "", 0), "", "warning")>>
        ELSE <<>>
  IN ForEach(allRequiredSkills, S)

\* The run throws a TypeError outside every try block when .split is called on a
\* truthy field that is no string (lines 980, 1002, 1011).
SplitThrows(clients, workers, tasks) ==
  \/ \E i \in 1..Len(clients) :
       Truthy(clients[i].RequestedTaskIDs) /\ ~HasStringMethods(clients[i].RequestedTaskIDs)
  \/ \E i \in 1..Len(tasks) :
       Truthy(tasks[i].RequiredSkills) /\ ~HasStringMethods(tasks[i].RequiredSkills)
  \/ \E i \in 1..Len(workers) :
       Truthy(workers[i].Skills) /\ ~HasStringMethods(workers[i].Skills)

\* ------------------------------- stages 7-9: JSON, slots, phases validation

\* The AttributesJSON stage without the test that the field is non-empty.
InvalidJsonUnguarded(clients) ==
  LET C(c, i) ==
        IF ~JsonParse(c.AttributesJSON).ok
        THEN <<Finding("invalid_json", Msg("Invalid JSON in AttributesJSON", <<>>, <<>>),
                       Entity("Client", c.ClientID, 0), "AttributesJSON", "error")>>
        ELSE <<>>
  IN ForEach(clients, C)

InvalidJson(clients) ==
  LET C(c, i) ==
        IF Truthy(c.AttributesJSON) /\ ~JsonParse(c.AttributesJSON).ok
        THEN <<Finding("invalid_json", Msg("Invalid JSON in AttributesJSON", <<>>, <<>>),
                       Entity("Client", c.ClientID, 0), "AttributesJSON", "error")>>
        ELSE <<>>
  IN ForEach(clients, C)

\* Array.isArray(v) && v.every(x => typeof x === 'number' && x > 0)
PositiveArray(j) == j.kind = "array" /\ \A i \in 1..Len(j.arr) : j.arr[i] > 0

InvalidSlots(workers) ==
  LET W(w, i) ==
        IF ~Truthy(w.AvailableSlots) THEN <<>>
        ELSE LET slots == JsonParse(w.AvailableSlots) IN
             IF ~slots.ok
             THEN <<Finding("invalid_slots", Msg("AvailableSlots must be valid JSON array", <<>>, <<>>),
                            Entity("Worker", w.WorkerID, 0), "AvailableSlots", "error")>>
             ELSE IF ~PositiveArray(slots)
             THEN <<Finding("invalid_slots", Msg("AvailableSlots must be an array of positive numbers", <<>>, <<>>),
                            Entity("Worker", w.WorkerID, 0), "AvailableSlots", "error")>>
             ELSE <<>>
  IN ForEach(workers, W)

\* JSON.parse throws on strings only here (a number always parses), so .match at
\* line 1093 is always called on a string.
InvalidPhases(tasks) ==
  LET T(t, i) ==
        IF ~Truthy(t.PreferredPhases) THEN <<>>
        ELSE LET phases == JsonParse(t.PreferredPhases) IN
             IF ~phases.ok
             THEN (IF ~RangeMatch(t.PreferredPhases.s)
                   THEN <<Finding("invalid_phases", Msg("PreferredPhases must be valid JSON array or range format", <<>>, <<>>),
                                  Entity("Task", t.TaskID, 0), "PreferredPhases", "error")>>
                   ELSE <<>>)
             ELSE IF ~PositiveArray(phases)
             THEN <<Finding("invalid_phases", Msg("PreferredPhases must be an array of positive numbers", <<>>, <<>>),
                            Entity("Task", t.TaskID, 0), "PreferredPhases", "error")>>
             ELSE <<>>
  IN ForEach(tasks, T)

\* ----------------------------------- stages 10-11: concurrency and load

\* The MaxConcurrent test with < 0 in place of < 1.
InvalidConcurrentNegative(tasks) ==
  LET T(t, i) ==
        IF t.MaxConcurrent < 0
        THEN <<Finding("invalid_concurrent", Msg("MaxConcurrent must be >= 1", <<>>, <<t.MaxConcurrent>>),
                       Entity("Task", t.TaskID, 0), "MaxConcurrent", "error")>>
        ELSE <<>>
  IN ForEach(tasks, T)

InvalidConcurrent(tasks) ==
  LET T(t, i) ==
        IF t.MaxConcurrent < 1
        THEN <<Finding("invalid_concurrent", Msg("MaxConcurrent must be >= 1", <<>>, <<t.MaxConcurrent>>),
                       Entity("Task", t.TaskID, 0), "MaxConcurrent", "error")>>
        ELSE <<>>
  IN ForEach(tasks, T)

InvalidLoad(workers) ==
  LET W(w, i) ==
        IF w.MaxLoadPerPhase < 1
        THEN <<Finding("invalid_load", Msg("MaxLoadPerPhase must be >= 1", <<>>, <<w.MaxLoadPerPhase>>),
                       Entity("Worker", w.WorkerID, 0), "MaxLoadPerPhase", "error")>>
        ELSE <<>>
  IN ForEach(workers, W)

\* ------------------------------------- stage 12: circular co-run groups

\* The rule filter without the test of rule.active.
ActiveRulesAnyState(rules, type) ==
  KeepIdx(rules, {i \in 1..Len(rules) : rules[i].type = type}, 1)

\* rules.filter(rule => rule.type === type && rule.active)
ActiveRules(rules, type) ==
  KeepIdx(rules, {i \in 1..Len(rules) : rules[i].type = type /\ rules[i].active}, 1)

\* The values of the Map taskGroups in iteration order: Map.set under a key that
\* is already present keeps the key's place and replaces its value.
TaskGroups(rules) ==
  LET coRunRules == ActiveRules(rules, "coRun")
      withTasks == KeepIdx(coRunRules, {i \in 1..Len(coRunRules) : coRunRules[i].hasTasks}, 1)
      ids == Distinct([i \in 1..Len(withTasks) |-> withTasks[i].id])
      Last(id) == CHOOSE i \in 1..Len(withTasks) :
                    withTasks[i].id = id /\ \A j \in (i + 1)..Len(withTasks) : withTasks[j].id # id
  IN [k \in 1..Len(ids) |-> withTasks[Last(ids[k])].tasks]

\* The related tasks the two nested loops of detectCycle visit, in order.
RelatedTasks(groups, taskId) ==
  LET G(tasks, i) ==
        IF Includes(tasks, taskId)
        THEN KeepIdx(tasks, {j \in 1..Len(tasks) : tasks[j] # taskId}, 1)
        ELSE <<>>
  IN ForEach(groups, G)

\* The reported cycle reduced to the task that closes it.
CyclePathClosingTask(path, taskId) == <<taskId>>

\* path.slice(path.indexOf(taskId)).concat(taskId); indexOf is -1 when taskId is
\* not on the path, and slice(-1) is the last element.
CyclePath(path, taskId) ==
  LET k == IndexOf(path, taskId)
      from == IF k > 0 THEN k ELSE IF Len(path) > 0 THEN Len(path) ELSE 1
  IN SubSeq(path, from, Len(path)) \o <<taskId>>

CircularFinding(cycle) ==
  Finding("circular_corun", Msg("Circular co-run dependency detected", cycle, <<>>),
          Entity("Co-run Rules", "", 0), "", "error")

\* detectCycle and its loop over the related tasks.  st is [visited, stack, errs,
\* found, expanded]: the two Sets, the findings pushed so far, the value returned,
\* and the tasks whose related tasks were looped over, in order.
RECURSIVE DetectCycle(_, _, _, _)
RECURSIVE DetectLoop(_, _, _, _, _)

\* detectCycle with the visited test first: a task on the stack is visited too.
DetectCycleVisitedFirst(groups, taskId, path, st) ==
  IF taskId \in st.visited THEN [st EXCEPT !.found = FALSE]
  ELSE DetectLoop(groups, RelatedTasks(groups, taskId), taskId, path,
                  [st EXCEPT !.visited = @ \cup {taskId}, !.stack = @ \cup {taskId},
                             !.expanded = Append(@, taskId)])

\* detectCycle without the visited set: only the recursion stack stops it.
DetectCycleStackOnly(groups, taskId, path, st) ==
  IF taskId \in st.stack
  THEN [st EXCEPT !.errs = Append(@, CircularFinding(CyclePath(path, taskId))), !.found = TRUE]
  ELSE DetectLoop(groups, RelatedTasks(groups, taskId), taskId, path,
                  [st EXCEPT !.stack = @ \cup {taskId}, !.expanded = Append(@, taskId)])

DetectCycle(groups, taskId, path, st) ==
  IF taskId \in st.stack
  THEN [st EXCEPT !.errs = Append(@, CircularFinding(CyclePath(path, taskId))), !.found = TRUE]
  ELSE IF taskId \in st.visited THEN [st EXCEPT !.found = FALSE]
  ELSE DetectLoop(groups, RelatedTasks(groups, taskId), taskId, path,
                  [st EXCEPT !.visited = @ \cup {taskId}, !.stack = @ \cup {taskId},
                             !.expanded = Append(@, taskId)])

DetectLoop(groups, related, taskId, path, st) ==
  IF related = <<>>
  THEN [st EXCEPT !.stack = @ \ {taskId}, !.found = FALSE]
  ELSE LET r == DetectCycle(groups, Head(related), Append(path, taskId), st) IN
       IF r.found THEN r
       ELSE DetectLoop(groups, Tail(related), taskId, path, r)

\* tasks.forEach(task => { if (!visited.has(task.TaskID)) detectCycle(task.TaskID, []) })
RECURSIVE DetectFrom(_, _, _, _)
DetectFrom(groups, tasks, i, st) ==
  IF i > Len(tasks) THEN st
  ELSE IF tasks[i].TaskID \in st.visited THEN DetectFrom(groups, tasks, i + 1, st)
  ELSE DetectFrom(groups, tasks, i + 1, DetectCycle(groups, tasks[i].TaskID, <<>>, st))

\* The traversal of a run: its final [visited, stack, errs, found, expanded].
CycleTraversal(tasks, rules) ==
  DetectFrom(TaskGroups(rules), tasks, 1,
             [visited |-> {}, stack |-> {}, errs |-> <<>>, found |-> FALSE, expanded |-> <<>>])

CircularCoRun(tasks, rules) == CycleTraversal(tasks, rules).errs

\* ------------------------------------------- stage 15: conflicting rules

\* taskPhaseConstraints keeping the first phase window of a task instead of the last.
TaskPhaseConstraintsFirst(coRunTasks, phaseWindowRules) ==
  LET hits == KeepIdx(phaseWindowRules,
                      {i \in 1..Len(phaseWindowRules) :
                         Includes(coRunTasks, phaseWindowRules[i].taskId)
                         /\ phaseWindowRules[i].hasPhases}, 1)
      keys == Distinct([i \in 1..Len(hits) |-> hits[i].taskId])
  IN [keys |-> keys,
      values |-> [k \in 1..Len(keys) |->
                    hits[IndexOf([i \in 1..Len(hits) |-> hits[i].taskId], keys[k])].allowedPhases]]

\* taskPhaseConstraints with one entry per phase window instead of one per task.
TaskPhaseConstraintsEveryWindow(coRunTasks, phaseWindowRules) ==
  LET hits == KeepIdx(phaseWindowRules,
                      {i \in 1..Len(phaseWindowRules) :
                         Includes(coRunTasks, phaseWindowRules[i].taskId)
                         /\ phaseWindowRules[i].hasPhases}, 1)
  IN [keys |-> [i \in 1..Len(hits) |-> hits[i].taskId],
      values |-> [i \in 1..Len(hits) |-> hits[i].allowedPhases]]

\* The Map taskPhaseConstraints of one co-run rule as [keys, values] in iteration
\* order: a later phase window of a task replaces the earlier one in place.
TaskPhaseConstraints(coRunTasks, phaseWindowRules) ==
  LET hits == KeepIdx(phaseWindowRules,
                      {i \in 1..Len(phaseWindowRules) :
                         Includes(coRunTasks, phaseWindowRules[i].taskId)
                         /\ phaseWindowRules[i].hasPhases}, 1)
      keys == Distinct([i \in 1..Len(hits) |-> hits[i].taskId])
      Last(id) == CHOOSE i \in 1..Len(hits) :
                    hits[i].taskId = id /\ \A j \in (i + 1)..Len(hits) : hits[j].taskId # id
  IN [keys |-> keys, values |-> [k \in 1..Len(keys) |-> hits[Last(keys[k])].allowedPhases]]

\* allConstraints.reduce((acc, curr) => acc.filter(phase => curr.includes(phase)))
RECURSIVE Intersection(_, _)
Intersection(acc, rest) ==
  IF rest = <<>> THEN acc
  ELSE Intersection(KeepIdx(acc, {i \in 1..Len(acc) : Includes(Head(rest), acc[i])}, 1), Tail(rest))

CoRunPhaseConflicts(rules) ==
  LET phaseWindowRules == ActiveRules(rules, "phaseWindow")
      R(coRunRule, i) ==
        IF ~coRunRule.hasTasks THEN <<>>
        ELSE LET c == TaskPhaseConstraints(coRunRule.tasks, phaseWindowRules) IN
             IF Len(c.keys) > 1 /\ Len(Intersection(Head(c.values), Tail(c.values))) = 0
             THEN <<Finding("conflicting_rules",
                            Msg("Co-run tasks have conflicting phase window constraints", c.keys, <<>>),
                            Entity("Rule Conflict", coRunRule.name, 0), "", "error")>>
             ELSE <<>>
  IN ForEach(ActiveRules(rules, "coRun"), R)

\* The capacity of a worker group: the sum of MaxLoadPerPhase over its workers.
GroupCapacity(workers, workerGroup) ==
  LET groupWorkers == KeepIdx(workers, {k \in 1..Len(workers) :
                                workers[k].WorkerGroup = workerGroup}, 1)
  IN SumSeq([k \in 1..Len(groupWorkers) |-> groupWorkers[k].MaxLoadPerPhase])

\* The comparison with >= in place of >.
ReachesCapacity(maxSlots, totalGroupCapacity) == maxSlots >= totalGroupCapacity

\* maxSlots > totalGroupCapacity
ExceedsCapacity(maxSlots, totalGroupCapacity) == maxSlots > totalGroupCapacity

LoadLimitConflicts(workers, rules) ==
  LET R(loadRule, i) ==
        IF loadRule.workerGroup # "" /\ loadRule.maxSlots # 0
        THEN LET totalGroupCapacity == GroupCapacity(workers, loadRule.workerGroup)
             IN IF ExceedsCapacity(loadRule.maxSlots, totalGroupCapacity)
                THEN <<Finding("conflicting_rules",
                               Msg("Load limit rule exceeds group capacity", <<loadRule.workerGroup>>,
                                   <<loadRule.maxSlots, totalGroupCapacity>>),
                               Entity("Rule Conflict", loadRule.name, 0), "", "warning")>>
                ELSE <<>>
        ELSE <<>>
  IN ForEach(ActiveRules(rules, "loadLimit"), R)

ConflictingRules(workers, rules) == CoRunPhaseConflicts(rules) \o LoadLimitConflicts(workers, rules)

\* --------------------------------------------- stage 13: overloaded workers

OverloadedWorkers(workers) ==
  LET W(w, i) ==
        LET availableSlots == JsonParse(w.AvailableSlots) IN
        IF availableSlots.ok /\ availableSlots.kind = "array"
           /\ Len(availableSlots.arr) < w.MaxLoadPerPhase
        THEN <<Finding("overloaded_worker", Msg("Worker has fewer available slots than MaxLoadPerPhase", <<>>,
                           <<Len(availableSlots.arr), w.MaxLoadPerPhase>>),
                       Entity("Worker", w.WorkerID, 0), "MaxLoadPerPhase", "warning")>>
        ELSE <<>>
  IN ForEach(workers, W)

\* ------------------------------------------ stage 14: phase-slot saturation

\* The phases a worker's AvailableSlots adds supply to (none when JSON.parse
\* throws or yields no array).
SupplyPhases(w) ==
  LET availableSlots == JsonParse(w.AvailableSlots) IN
  IF availableSlots.ok /\ availableSlots.kind = "array" THEN availableSlots.arr ELSE <<>>

\* The phases a task's PreferredPhases adds demand to: the parsed array; the
\* expanded range when JSON.parse throws and the range pattern matches; none when
\* the parsed value is no array or .match itself throws (the outer try).
DemandPhases(t) ==
  LET parsed == JsonParse(t.PreferredPhases) IN
  IF parsed.ok THEN (IF parsed.kind = "array" THEN parsed.arr ELSE <<>>)
  ELSE IF HasStringMethods(t.PreferredPhases) /\ RangeMatch(t.PreferredPhases.s)
       THEN RangeExpand(t.PreferredPhases.s)
       ELSE <<>>

\* The additions made to the Map phaseAnalysis, in order: [phase, slots, duration].
PhaseAdditions(workers, tasks) ==
  LET W(w, i) == [k \in 1..Len(SupplyPhases(w)) |->
                    [phase |-> SupplyPhases(w)[k], slots |-> w.MaxLoadPerPhase, duration |-> 0]]
      T(t, i) == [k \in 1..Len(DemandPhases(t)) |->
                    [phase |-> DemandPhases(t)[k], slots |-> 0, duration |-> t.Duration]]
  IN ForEach(workers, W) \o ForEach(tasks, T)

\* phaseAnalysis whose entries are overwritten by each addition, not added to.
PhaseAnalysisOverwriting(workers, tasks) ==
  LET adds == PhaseAdditions(workers, tasks)
      phases == Distinct([i \in 1..Len(adds) |-> adds[i].phase])
      At(p) == KeepIdx(adds, {i \in 1..Len(adds) : adds[i].phase = p}, 1)
      Last(q) == IF q = <<>> THEN 0 ELSE q[Len(q)]
      Slots(q) == KeepIdx(q, {i \in 1..Len(q) : q[i].slots # 0}, 1)
      Durations(q) == KeepIdx(q, {i \in 1..Len(q) : q[i].duration # 0}, 1)
  IN [k \in 1..Len(phases) |->
        [phase |-> phases[k],
         totalSlots |-> Last([i \in 1..Len(Slots(At(phases[k]))) |-> Slots(At(phases[k]))[i].slots]),
         totalDuration |-> Last([i \in 1..Len(Durations(At(phases[k]))) |->
                                   Durations(At(phases[k]))[i].duration])]]

\* The entries of phaseAnalysis in iteration order: [phase, totalSlots, totalDuration].
PhaseAnalysis(workers, tasks) ==
  LET adds == PhaseAdditions(workers, tasks)
      phases == Distinct([i \in 1..Len(adds) |-> adds[i].phase])
      At(p) == KeepIdx(adds, {i \in 1..Len(adds) : adds[i].phase = p}, 1)
  IN [k \in 1..Len(phases) |->
        [phase |-> phases[k],
         totalSlots |-> SumSeq([i \in 1..Len(At(phases[k])) |-> At(phases[k])[i].slots]),
         totalDuration |-> SumSeq([i \in 1..Len(At(phases[k])) |-> At(phases[k])[i].duration])]]

\* The first comparison with >= in place of >.
SaturatedAtLeast(totalDuration, totalSlots) == totalDuration >= totalSlots

\* analysis.totalDuration > analysis.totalSlots
Saturated(totalDuration, totalSlots) == totalDuration > totalSlots

\* The second comparison with >= in place of >.
HighUtilizationInclusive(totalDuration, totalSlots) == 5 * totalDuration >= 4 * totalSlots

\* totalDuration > totalSlots * 0.8 over integers.
HighUtilization(totalDuration, totalSlots) == 5 * totalDuration > 4 * totalSlots

\* Math.round((totalDuration / totalSlots) * 100), totalSlots > 0.
Percent(totalDuration, totalSlots) == (200 * totalDuration + totalSlots) \div (2 * totalSlots)

\* The two comparisons as independent tests: a saturated phase gets both findings.
PhaseSaturationBothTests(workers, tasks) ==
  LET P(a, i) ==
        (IF Saturated(a.totalDuration, a.totalSlots)
         THEN <<Finding("phase_saturation", Msg("Required duration exceeds available slots", <<>>,
                            <<a.phase, a.totalDuration, a.totalSlots>>),
                        Entity("Phase", "", a.phase), "", "error")>>
         ELSE <<>>)
        \o
        (IF HighUtilization(a.totalDuration, a.totalSlots) /\ a.totalSlots > 0
         THEN <<Finding("phase_saturation", Msg("High utilization", <<>>,
                            <<a.phase, a.totalDuration, Percent(a.totalDuration, a.totalSlots)>>),
                        Entity("Phase", "", a.phase), "", "warning")>>
         ELSE <<>>)
  IN ForEach(PhaseAnalysis(workers, tasks), P)

PhaseSaturation(workers, tasks) ==
  LET P(a, i) ==
        IF Saturated(a.totalDuration, a.totalSlots)
        THEN <<Finding("phase_saturation", Msg("Required duration exceeds available slots", <<>>,
                           <<a.phase, a.totalDuration, a.totalSlots>>),
                       Entity("Phase", "", a.phase), "", "error")>>
        ELSE IF HighUtilization(a.totalDuration, a.totalSlots)
        THEN <<Finding("phase_saturation", Msg("High utilization", <<>>,
                           <<a.phase, a.totalDuration, Percent(a.totalDuration, a.totalSlots)>>),
                       Entity("Phase", "", a.phase), "", "warning")>>
        ELSE <<>>
  IN ForEach(PhaseAnalysis(workers, tasks), P)

\* ------------------------------------------------------ the validation run

\* The early return never taken.
NoDataNever(in) == FALSE

\* clients.length === 0 && workers.length === 0 && tasks.length === 0
NoData(in) == Len(in.clients) = 0 /\ Len(in.workers) = 0 /\ Len(in.tasks) = 0

\* What the AI block can append: nothing (no reply, a failed call, no suggestion),
\* or findings whose type the AI layer sets: the classifier's content_quality
\* warning and the rule suggestion above the confidence threshold.
AiFinding(type) ==
  Finding(type, Msg("AI", <<>>, <<>>), Entity("AI Analysis", "", 0), "", "warning")

AiOutcomes == {<<>>, <<AiFinding("content_quality")>>, <<AiFinding("ai_rule_suggestion")>>}

\* The suggestions derived from the findings: one per kind that occurs, in this order.
SuggestionKinds ==
  << <<"missing_skill", "add_worker_skill">>, <<"invalid_json", "fix_json">>,
     <<"duplicate_id", "fix_duplicates">>, <<"phase_saturation", "rebalance_phases">>,
     <<"conflicting_rules", "resolve_conflicts">>, <<"overloaded_worker", "fix_overload">>,
     <<"unknown_reference", "fix_references">> >>

\* The derivation with one suggestion per finding of a kind instead of one per kind.
SuggestPerFinding(errs) ==
  LET K(k, i) ==
        [j \in 1..Len(OfType(errs, k[1])) |-> [type |-> k[2], count |-> Len(OfType(errs, k[1]))]]
  IN ForEach(SuggestionKinds, K)

Suggest(errs) ==
  LET K(k, i) ==
        IF Len(OfType(errs, k[1])) > 0
        THEN <<[type |-> k[2], count |-> Len(OfType(errs, k[1]))]>>
        ELSE <<>>
  IN ForEach(SuggestionKinds, K)

\* ------------------------------------------------------------------- state

VARIABLES
  clients, workers, tasks, rules,   \* DataContext collections
  validationErrors,                 \* DataContext: the stored finding list
  isValidating,                     \* ValidationTab state
  aiSuggestions, showSuggestions,   \* ValidationTab state
  aiAvailable,                      \* aiService.isAvailable()
  pending,                          \* the run suspended at the await of the AI block
  lastRun,                          \* observation: the latest run, its input and outcome
  runs,                             \* observation: runs that returned, counted up to MaxRuns
  isExporting,                      \* ExportTab state
  downloaded,                       \* observation: the files of the latest export
  scheduled,                        \* the run a setTimeout holds, with the data its closure sees
  applied                           \* observation: the type of the latest applied suggestion

vars == <<clients, workers, tasks, rules, validationErrors, isValidating,
          aiSuggestions, showSuggestions, aiAvailable, pending, lastRun, runs,
          isExporting, downloaded, scheduled, applied>>

Snapshot == [clients |-> clients, workers |-> workers, tasks |-> tasks, rules |-> rules]
NoInput == [clients |-> <<>>, workers |-> <<>>, tasks |-> <<>>, rules |-> <<>>]
NoPending == [active |-> FALSE, input |-> NoInput, errors |-> <<>>]
NoRun == [outcome |-> "none", input |-> NoInput, ai |-> FALSE]
NoTimer == [active |-> FALSE, input |-> NoInput]

\* A run that starts from the stored list instead of an empty one.
StartErrorsCarried == validationErrors

\* const errors: ValidationError[] = []
StartErrors == <<>>

\* The stages with the skill coverage stage ahead of the reference stage.
AnalyzeSkillsFirst(in) ==
  StartErrors
  \o MissingIds(in.clients, in.workers, in.tasks)
  \o DuplicateIds(in.clients, in.workers, in.tasks)
  \o InvalidRanges(in.clients)
  \o InvalidDurations(in.tasks)
  \o MissingSkills(in.workers, in.tasks)
  \o UnknownReferences(in.clients, in.tasks)
  \o InvalidJson(in.clients)
  \o InvalidSlots(in.workers)
  \o InvalidPhases(in.tasks)
  \o InvalidConcurrent(in.tasks)
  \o InvalidLoad(in.workers)
  \o CircularCoRun(in.tasks, in.rules)
  \o ConflictingRules(in.workers, in.rules)
  \o OverloadedWorkers(in.workers)
  \o PhaseSaturation(in.workers, in.tasks)

\* The findings pushed before the AI block, in the order of the code.
Analyze(in) ==
  StartErrors
  \o MissingIds(in.clients, in.workers, in.tasks)
  \o DuplicateIds(in.clients, in.workers, in.tasks)
  \o InvalidRanges(in.clients)
  \o InvalidDurations(in.tasks)
  \o UnknownReferences(in.clients, in.tasks)
  \o MissingSkills(in.workers, in.tasks)
  \o InvalidJson(in.clients)
  \o InvalidSlots(in.workers)
  \o InvalidPhases(in.tasks)
  \o InvalidConcurrent(in.tasks)
  \o InvalidLoad(in.workers)
  \o CircularCoRun(in.tasks, in.rules)
  \o ConflictingRules(in.workers, in.rules)
  \o OverloadedWorkers(in.workers)
  \o PhaseSaturation(in.workers, in.tasks)

\* The count of returned runs, kept up to MaxRuns.
Counted(n) == IF n < MaxRuns THEN n + 1 ELSE n

\* DataProvider and ValidationTab after construction, over the data and rules d.
InitOver(d) ==
  /\ clients = d.clients /\ workers = d.workers /\ tasks = d.tasks /\ rules = d.rules
  /\ validationErrors = <<>>
  /\ isValidating = FALSE
  /\ aiSuggestions = <<>> /\ showSuggestions = FALSE
  /\ aiAvailable = FALSE
  /\ pending = NoPending
  /\ lastRun = NoRun
  /\ runs = 0
  /\ isExporting = FALSE
  /\ downloaded = <<>>
  /\ scheduled = NoTimer
  /\ applied = "none"

\* A run that rewrites the clients' AttributesJSON as it goes.
RunRepairsData ==
  /\ clients' = [i \in 1..Len(clients) |->
                   IF JsonParse(clients[i].AttributesJSON).ok THEN clients[i]
                   ELSE [clients[i] EXCEPT !.AttributesJSON = Str(<<"{", "m", "}">>)]]
  /\ UNCHANGED <<workers, tasks, rules>>

\* runValidations calls no setter of the collections and assigns to no record.
RunKeepsData == UNCHANGED <<clients, workers, tasks, rules>>

\* A run that appends its findings to the stored list.
StoreMerging(errs, in, ai) ==
  /\ validationErrors' = validationErrors \o errs
  /\ isValidating' = FALSE
  /\ aiSuggestions' = Suggest(validationErrors')
  /\ showSuggestions' = (Len(aiSuggestions') > 0)
  /\ lastRun' = [outcome |-> "completed", input |-> in, ai |-> ai]
  /\ runs' = Counted(runs)

\* The tail of runValidations from setValidationErrors(errors) on.
Store(errs, in, ai) ==
  /\ validationErrors' = errs
  /\ isValidating' = FALSE
  /\ aiSuggestions' = Suggest(validationErrors')
  /\ showSuggestions' = (Len(aiSuggestions') > 0)
  /\ lastRun' = [outcome |-> "completed", input |-> in, ai |-> ai]
  /\ runs' = Counted(runs)

\* runValidations over the collections its closure holds, up to its
\* return, its exception, or the await of the AI block.
RunOver(in) ==
  /\ IF NoData(in)
     THEN /\ validationErrors' = <<>>
          /\ isValidating' = FALSE
          /\ lastRun' = [outcome |-> "early", input |-> in, ai |-> FALSE]
          /\ runs' = Counted(runs)
          /\ UNCHANGED <<aiSuggestions, showSuggestions, pending>>
     ELSE IF SplitThrows(in.clients, in.workers, in.tasks)
     THEN /\ isValidating' = TRUE
          /\ lastRun' = [outcome |-> "threw", input |-> in, ai |-> FALSE]
          /\ UNCHANGED <<validationErrors, aiSuggestions, showSuggestions, pending, runs>>
     ELSE IF aiAvailable
     THEN /\ isValidating' = TRUE
          /\ pending' = [active |-> TRUE, input |-> in, errors |-> Analyze(in)]
          /\ UNCHANGED <<validationErrors, aiSuggestions, showSuggestions, lastRun, runs>>
     ELSE /\ Store(Analyze(in), in, FALSE)
          /\ UNCHANGED pending
  /\ RunKeepsData
  /\ UNCHANGED <<aiAvailable, isExporting, downloaded, applied>>

\* runValidations as its two callers invoke it: the Run All Validations
\* button, with the collections of the current render, and the timer of
\* applyAiSuggestion, with the collections of the render of the click (a timer
\* that falls into the await of another run is taken once that run has settled).
Callers == {"button", "timer"}

RunValidationsBy(caller) ==
  /\ IF caller = "timer"
     THEN scheduled.active /\ ~(aiAvailable /\ pending.active) /\ scheduled' = NoTimer
     ELSE ~isValidating /\ UNCHANGED scheduled
  /\ RunOver(IF caller = "timer" THEN scheduled.input ELSE Snapshot)

\* A click on "Run All Validations" (disabled while isValidating): the button
\* holds the runValidations of the latest render.
RunValidations == RunValidationsBy("button")

\* The awaited AI calls settle and the suspended run finishes.
AiSettles ==
  /\ pending.active
  /\ \E ai \in AiOutcomes : Store(pending.errors \o ai, pending.input, TRUE)
  /\ pending' = NoPending
  /\ RunKeepsData
  /\ UNCHANGED <<aiAvailable, isExporting, downloaded, scheduled, applied>>

\* aiService finishes its initialization with at least one service loaded.
InitializeAI ==
  /\ ~aiAvailable
  /\ aiAvailable' = TRUE
  /\ UNCHANGED <<clients, workers, tasks, rules, validationErrors, isValidating,
                 aiSuggestions, showSuggestions, pending, lastRun, runs,
                 isExporting, downloaded, scheduled, applied>>

Next == RunValidations \/ AiSettles \/ InitializeAI

\* ------------------------------------------------------------ input domains

Client(id, priority, requested, attributes) ==
  [ClientID |-> id, PriorityLevel |-> priority, RequestedTaskIDs |-> requested,
   AttributesJSON |-> attributes]

Worker(id, skills, slots, load, group) ==
  [WorkerID |-> id, Skills |-> skills, AvailableSlots |-> slots, MaxLoadPerPhase |-> load,
   WorkerGroup |-> group, QualificationLevel |-> "mid"]

Task(id, duration, skills, phases, concurrent) ==
  [TaskID |-> id, Duration |-> duration, RequiredSkills |-> skills, PreferredPhases |-> phases,
   MaxConcurrent |-> concurrent]

Rule(type, name, active) ==
  [id |-> "", type |-> type, name |-> name, active |-> active,
   hasTasks |-> FALSE, tasks |-> <<>>, workerGroup |-> "", maxSlots |-> 0,
   taskId |-> "", hasPhases |-> FALSE, allowedPhases |-> <<>>]

CoRun(name, active, ts) == [Rule("coRun", name, active) EXCEPT !.hasTasks = TRUE, !.tasks = ts]
LoadLimit(name, active, group, slots) ==
  [Rule("loadLimit", name, active) EXCEPT !.workerGroup = group, !.maxSlots = slots]
PhaseWindow(name, active, t, ps) ==
  [Rule("phaseWindow", name, active) EXCEPT !.taskId = t, !.hasPhases = TRUE, !.allowedPhases = ps]

\* id: `rule-${Date.now()}`, distinct for rules added one after the other.
WithIds(rs) == [i \in 1..Len(rs) |-> [rs[i] EXCEPT !.id = "rule-" \o ToString(i)]]

\* The array text [a, b, ...] of a list of numbers.
RECURSIVE ArrayBody(_)
ArrayBody(a) ==
  IF a = <<>> THEN <<>>
  ELSE IF Len(a) = 1 THEN NumberText(a[1])
  ELSE NumberText(a[1]) \o <<",">> \o ArrayBody(Tail(a))

ArrayText(a) == <<"[">> \o ArrayBody(a) \o <<"]">>
RangeText(a, b) == <<Numeral(a), "-", Numeral(b)>>

\* --------------------------------------------- co-run cycles (C1, C2)

MaxTasks == 2
MaxCoRunRules == 3

PlainTask(id) == Task(id, 1, Str(<<>>), Str(<<>>), 1)

CycleTaskLists ==
  {[i \in 1..Len(ids) |-> PlainTask(ids[i])] : ids \in SeqsUpTo({"T1", "T2", "T3"}, MaxTasks)}

CoRunPool ==
  {CoRun("A", TRUE, <<"T1", "T2">>), CoRun("B", TRUE, <<"T2", "T3">>),
   CoRun("C", TRUE, <<"T3", "T1">>), CoRun("D", FALSE, <<"T3", "T1">>)}

InitCycle ==
  \E ts \in CycleTaskLists, rs \in SeqsUpTo(CoRunPool, MaxCoRunRules) :
    InitOver([clients |-> <<>>, workers |-> <<>>, tasks |-> ts, rules |-> WithIds(rs)])

SpecCycle == InitCycle /\ [][Next]_vars

\* ----------------------------------------------------- the co-run graph

\* The task lists of the active coRun rules of an input.
CoRunGroups(in) ==
  {in.rules[i].tasks : i \in {k \in 1..Len(in.rules) :
     in.rules[k].type = "coRun" /\ in.rules[k].active /\ in.rules[k].hasTasks}}

\* The must-run-with edges: two different tasks named by one active coRun rule.
CoRunEdges(in) ==
  {e \in SUBSET (UNION {Range(g) : g \in CoRunGroups(in)}) :
     Cardinality(e) = 2 /\ \E g \in CoRunGroups(in) : e \subseteq Range(g)}

\* The tasks reachable from the set S along the edges E.
RECURSIVE Reach(_, _)
Reach(S, E) ==
  LET more == S \cup UNION {e \in E : e \cap S # {}} IN
  IF more = S THEN S ELSE Reach(more, E)

\* Task a lies on a cycle of E: some edge {a, b} whose ends stay connected without it.
OnCycle(a, E) == \E e \in E : a \in e /\ (e \ {a}) \subseteq Reach({a}, E \ {e})

HasCycle(in) == \E e \in CoRunEdges(in) : \E a \in e : OnCycle(a, CoRunEdges(in))

\* The run returned a finding list (it did not end in an exception).
Returned == lastRun.outcome \in {"completed", "early"}

Circular == OfType(validationErrors, "circular_corun")

\* C1: when the active coRun rules link tasks without forming a cycle, the run
\* produces no circular_corun finding.
C1_AcyclicRulesNoCircular ==
  (Returned /\ ~HasCycle(lastRun.input)) => Len(Circular) = 0

\* C2 as stated: whenever the active coRun rules form a cycle among tasks, the run
\* produces at least one circular_corun finding.
C2_CycleAlwaysReported ==
  (Returned /\ HasCycle(lastRun.input)) => Len(Circular) > 0

\* C2 amended: whenever the active coRun rules form a cycle and at least one task
\* on a cycle is in the task collection, the run produces at least one
\* circular_corun finding, and every circular_corun finding has severity error.
C2_CycleInCollectionReported ==
  Returned =>
    /\ (\E i \in 1..Len(lastRun.input.tasks) :
          OnCycle(lastRun.input.tasks[i].TaskID, CoRunEdges(lastRun.input)))
       => Len(Circular) > 0
    /\ \A i \in 1..Len(Circular) : Circular[i].severity = "error"

C2_Witness ==
  /\ lastRun.outcome = "completed"
  /\ Cardinality(CoRunGroups(lastRun.input)) = 3
  /\ \E i \in 1..Len(lastRun.input.tasks) :
       OnCycle(lastRun.input.tasks[i].TaskID, CoRunEdges(lastRun.input))
  /\ Len(Circular) > 0

\* ------------------------------ co-run rules against phase windows (C3)

MaxWindowRules == 4

WindowPool ==
  {CoRun("A", TRUE, <<"T1", "T2">>),
   PhaseWindow("P", TRUE, "T1", <<1>>), PhaseWindow("P", TRUE, "T1", <<1, 2>>),
   PhaseWindow("Q", TRUE, "T2", <<2>>), PhaseWindow("I", FALSE, "T2", <<1>>),
   [Rule("phaseWindow", "N", TRUE) EXCEPT !.taskId = "T2"]}

InitWindows ==
  \E ts \in {<<>>, <<PlainTask("T1")>>}, rs \in SeqsUpTo(WindowPool, MaxWindowRules) :
    InitOver([clients |-> <<>>, workers |-> <<>>, tasks |-> ts, rules |-> WithIds(rs)])

SpecWindows == InitWindows /\ [][Next]_vars

\* The rules of an input that are active and of the given type, as indices.
ActiveOf(in, type) == {i \in 1..Len(in.rules) : in.rules[i].type = type /\ in.rules[i].active}

\* The active phase windows (with a phase list) that target task t.
WindowsOn(in, t) == {i \in ActiveOf(in, "phaseWindow") : in.rules[i].taskId = t /\ in.rules[i].hasPhases}

\* The member tasks of co-run rule r that some active phase window targets.
Constrained(in, r) == {t \in Range(r.tasks) : WindowsOn(in, t) # {}}

\* The phases every window of every constrained member task allows.
CommonOfAll(in, r) ==
  {p \in UNION {Range(in.rules[i].allowedPhases) : i \in ActiveOf(in, "phaseWindow")} :
     \A t \in Constrained(in, r) : \A i \in WindowsOn(in, t) : p \in Range(in.rules[i].allowedPhases)}

\* The same with only the last window, in rule order, of each constrained task.
LastWindow(in, t) == CHOOSE i \in WindowsOn(in, t) : \A j \in WindowsOn(in, t) : j <= i

CommonOfLast(in, r) ==
  {p \in UNION {Range(in.rules[i].allowedPhases) : i \in ActiveOf(in, "phaseWindow")} :
     \A t \in Constrained(in, r) : p \in Range(in.rules[LastWindow(in, t)].allowedPhases)}

\* The findings of a type and severity that name the rule called name.
RuleFindings(type, severity, name) ==
  {i \in 1..Len(validationErrors) :
     /\ validationErrors[i].type = type /\ validationErrors[i].severity = severity
     /\ validationErrors[i].entity = Entity("Rule Conflict", name, 0)}

RuleNames(in) == {in.rules[i].name : i \in 1..Len(in.rules)}

\* C3 as stated: every active coRun rule gets exactly one conflicting_rules error
\* iff at least two of its member tasks are targeted by active phase windows and
\* the intersection of those tasks' allowed-phase lists is empty; otherwise none.
\* (Findings name a rule by its name: per name, as many findings as such rules.)
C3_ConflictIffEmptyIntersection ==
  Returned =>
    \A name \in RuleNames(lastRun.input) :
      Cardinality(RuleFindings("conflicting_rules", "error", name))
        = Cardinality({i \in ActiveOf(lastRun.input, "coRun") :
            /\ lastRun.input.rules[i].name = name
            /\ Cardinality(Constrained(lastRun.input, lastRun.input.rules[i])) >= 2
            /\ CommonOfAll(lastRun.input, lastRun.input.rules[i]) = {}})

\* C3 amended: in a run over data that is not all empty, every active coRun rule
\* gets exactly one conflicting_rules error iff at least two of its member tasks
\* are targeted by active phase windows and the lists of the last window of each
\* of those tasks have an empty intersection; otherwise none.  A run over empty
\* clients, workers and tasks emits none.
C3_ConflictIffLastWindowsDisjoint ==
  Returned =>
    \A name \in RuleNames(lastRun.input) :
      Cardinality(RuleFindings("conflicting_rules", "error", name))
        = Cardinality({i \in ActiveOf(lastRun.input, "coRun") :
            /\ ~NoData(lastRun.input)
            /\ lastRun.input.rules[i].name = name
            /\ Cardinality(Constrained(lastRun.input, lastRun.input.rules[i])) >= 2
            /\ CommonOfLast(lastRun.input, lastRun.input.rules[i]) = {}})

\* A co-run rule over T1 and T2 whose T1 has two windows: the last ones are disjoint.
C3_Witness ==
  /\ lastRun.outcome = "completed"
  /\ \E i \in ActiveOf(lastRun.input, "coRun") :
       /\ Cardinality(Constrained(lastRun.input, lastRun.input.rules[i])) = 2
       /\ Cardinality(WindowsOn(lastRun.input, "T1")) = 2
       /\ CommonOfLast(lastRun.input, lastRun.input.rules[i]) = {}
  /\ Cardinality(RuleFindings("conflicting_rules", "error", "A")) = 1

\* ------------------------------- load limits against group capacity (C5)

MaxWorkers == 2
MaxLoadRules == 2

GroupWorker(load, group) == Worker("", Str(<<>>), Str(<<>>), load, group)

WithWorkerIds(ws) == [i \in 1..Len(ws) |-> [ws[i] EXCEPT !.WorkerID = "W" \o ToString(i)]]

LoadWorkerPool ==
  {GroupWorker(2, "G1"), GroupWorker(-1, "G1"), GroupWorker(2, "G2")}

LoadPool ==
  {LoadLimit("A", TRUE, "G1", 2), LoadLimit("B", TRUE, "G3", 1),
   LoadLimit("C", TRUE, "", 2), LoadLimit("C", TRUE, "G1", 0), LoadLimit("D", FALSE, "G1", 3)}

InitLoad ==
  \E ws \in SeqsUpTo(LoadWorkerPool, MaxWorkers), rs \in SeqsUpTo(LoadPool, MaxLoadRules) :
    InitOver([clients |-> <<>>, workers |-> WithWorkerIds(ws), tasks |-> <<>>, rules |-> WithIds(rs)])

SpecLoad == InitLoad /\ [][Next]_vars

\* The sum of MaxLoadPerPhase over the workers of a group, by recursion on the list.
RECURSIVE CapacityOf(_, _)
CapacityOf(ws, group) ==
  IF ws = <<>> THEN 0
  ELSE (IF Head(ws).WorkerGroup = group THEN Head(ws).MaxLoadPerPhase ELSE 0)
       + CapacityOf(Tail(ws), group)

\* C5 as stated: every active loadLimit rule gets a conflicting_rules warning iff
\* its maxSlots is strictly greater than the summed MaxLoadPerPhase of the workers
\* of its group; none when maxSlots is less than or equal to that sum.
C5_WarningIffAboveCapacity ==
  Returned =>
    \A name \in RuleNames(lastRun.input) :
      Cardinality(RuleFindings("conflicting_rules", "warning", name))
        = Cardinality({i \in ActiveOf(lastRun.input, "loadLimit") :
            /\ lastRun.input.rules[i].name = name
            /\ lastRun.input.rules[i].maxSlots
                 > CapacityOf(lastRun.input.workers, lastRun.input.rules[i].workerGroup)})

\* C5 amended: in a run over data that is not all empty, every active loadLimit
\* rule with a non-empty workerGroup and a non-zero maxSlots gets a
\* conflicting_rules warning iff its maxSlots is strictly greater than the summed
\* MaxLoadPerPhase of the workers of its group; a rule with an empty workerGroup
\* or a zero maxSlots, and every rule of a run over empty data, gets none.
C5_WarningIffAboveCapacityGuarded ==
  Returned =>
    \A name \in RuleNames(lastRun.input) :
      Cardinality(RuleFindings("conflicting_rules", "warning", name))
        = Cardinality({i \in ActiveOf(lastRun.input, "loadLimit") :
            /\ ~NoData(lastRun.input)
            /\ lastRun.input.rules[i].name = name
            /\ lastRun.input.rules[i].workerGroup # ""
            /\ lastRun.input.rules[i].maxSlots # 0
            /\ lastRun.input.rules[i].maxSlots
                 > CapacityOf(lastRun.input.workers, lastRun.input.rules[i].workerGroup)})

\* G1 has capacity 2, met and not exceeded by a limit of 2; a second limit names
\* a group without workers.
C5_Witness ==
  /\ lastRun.outcome = "completed"
  /\ CapacityOf(lastRun.input.workers, "G1") = 2
  /\ \E i \in ActiveOf(lastRun.input, "loadLimit") :
       lastRun.input.rules[i].maxSlots = 2 /\ lastRun.input.rules[i].workerGroup = "G1"
  /\ \E i \in ActiveOf(lastRun.input, "loadLimit") : lastRun.input.rules[i].name = "B"
  /\ Cardinality(RuleFindings("conflicting_rules", "warning", "A")) = 0
  /\ Cardinality(RuleFindings("conflicting_rules", "warning", "B")) = 1

\* --------------------------------------- unresolved references (C4)

TaskIdsOf(in) == {in.tasks[i].TaskID : i \in 1..Len(in.tasks)}
GroupsOf(in) == {in.workers[i].WorkerGroup : i \in 1..Len(in.workers)}

\* C4: an active rule whose references do not resolve contributes no findings for
\* the unresolved part: no load-limit warning for a group no worker belongs to, no
\* circular_corun path through a task that is not in the collection, and no
\* co-run conflict over a task that is not in the collection.
C4_UnresolvedContributeNothing ==
  Returned =>
    /\ \A i \in ActiveOf(lastRun.input, "loadLimit") :
         lastRun.input.rules[i].workerGroup \notin GroupsOf(lastRun.input)
         => ~\E k \in RuleFindings("conflicting_rules", "warning", lastRun.input.rules[i].name) :
               validationErrors[k].message.parts = <<lastRun.input.rules[i].workerGroup>>
    /\ \A k \in 1..Len(validationErrors) :
         validationErrors[k].type = "circular_corun"
         => Range(validationErrors[k].message.parts) \subseteq TaskIdsOf(lastRun.input)
    /\ \A k \in 1..Len(validationErrors) :
         (validationErrors[k].type = "conflicting_rules" /\ validationErrors[k].severity = "error")
         => Range(validationErrors[k].message.parts) \subseteq TaskIdsOf(lastRun.input)

\* ------------------------------------------- phase saturation (C6, C7, C8)

PhaseWorker(slots, load) == Worker("", Str(<<>>), Str(slots), load, "G1")
PhaseTask(phases, duration) == Task("", duration, Str(<<>>), Str(phases), 1)

WithTaskIds(ts) == [i \in 1..Len(ts) |-> [ts[i] EXCEPT !.TaskID = "T" \o ToString(i)]]

PhaseWorkerPool ==
  {PhaseWorker(ArrayText(<<1>>), 5), PhaseWorker(ArrayText(<<1, 2>>), 2), PhaseWorker(<<"x">>, 2)}

PhaseTaskPool ==
  {PhaseTask(ArrayText(<<1>>), 4), PhaseTask(ArrayText(<<1>>), 1),
   PhaseTask(ArrayText(<<1, 1>>), 1), PhaseTask(RangeText(1, 2), 2)}

InitPhase ==
  \E ws \in SeqsUpTo(PhaseWorkerPool, MaxWorkers), ts \in SeqsUpTo(PhaseTaskPool, MaxTasks) :
    InitOver([clients |-> <<>>, workers |-> WithWorkerIds(ws), tasks |-> WithTaskIds(ts),
              rules |-> <<>>])

SpecPhase == InitPhase /\ [][Next]_vars

Phases == 0..MaxNum

\* How often phase p is listed in a phase list.
Occurrences(list, p) == Cardinality({k \in 1..Len(list) : list[k] = p})

\* The phase lists of the latest run's tasks and workers.
DemandLists == [i \in 1..Len(lastRun.input.tasks) |-> DemandPhases(lastRun.input.tasks[i])]
SupplyLists == [i \in 1..Len(lastRun.input.workers) |-> SupplyPhases(lastRun.input.workers[i])]

\* Required duration and supplied slots per phase, every task and worker
\* counted once when its phase set contains the phase.
RequiredOverSets ==
  LET lists == DemandLists IN
  [p \in Phases |-> SumSeq([i \in 1..Len(lists) |->
                      IF p \in Range(lists[i]) THEN lastRun.input.tasks[i].Duration ELSE 0])]

SuppliedOverSets ==
  LET lists == SupplyLists IN
  [p \in Phases |-> SumSeq([i \in 1..Len(lists) |->
                      IF p \in Range(lists[i]) THEN lastRun.input.workers[i].MaxLoadPerPhase ELSE 0])]

\* The same, every task and worker counted once per listing of the phase.
RequiredDuration ==
  LET lists == DemandLists IN
  [p \in Phases |-> SumSeq([i \in 1..Len(lists) |->
                      Occurrences(lists[i], p) * lastRun.input.tasks[i].Duration])]

SuppliedSlots ==
  LET lists == SupplyLists IN
  [p \in Phases |-> SumSeq([i \in 1..Len(lists) |->
                      Occurrences(lists[i], p) * lastRun.input.workers[i].MaxLoadPerPhase])]

\* The phase_saturation findings of a severity for phase p.
Saturation(p, severity) ==
  {i \in 1..Len(validationErrors) :
     /\ validationErrors[i].type = "phase_saturation" /\ validationErrors[i].severity = severity
     /\ validationErrors[i].entity = Entity("Phase", "", p)}

\* C6 as stated: for every phase p a phase_saturation error is emitted iff the
\* sum of Duration over the tasks whose preferred-phase set contains p is
\* strictly greater than the sum of MaxLoadPerPhase over the workers whose
\* available-phase set contains p.
C6_ErrorIffDemandOverSetsExceeds ==
  Returned =>
    LET required == RequiredOverSets
        supplied == SuppliedOverSets
    IN \A p \in Phases : (Saturation(p, "error") # {}) <=> required[p] > supplied[p]

\* C6 amended: for every phase p a phase_saturation error is emitted iff the
\* required duration of p, each task's Duration counted once per listing of p in
\* its preferred phases, is strictly greater than the supplied slots of p, each
\* worker's MaxLoadPerPhase counted once per listing of p in its available slots.
C6_ErrorIffDemandExceeds ==
  Returned =>
    LET required == RequiredDuration
        supplied == SuppliedSlots
    IN \A p \in Phases : (Saturation(p, "error") # {}) <=> required[p] > supplied[p]

\* A task lists phase 1 twice: over sets the demand fits, per listing it does not.
C6_Witness ==
  /\ lastRun.outcome = "completed"
  /\ RequiredOverSets[1] <= SuppliedOverSets[1]
  /\ RequiredDuration[1] > SuppliedSlots[1]
  /\ Saturation(1, "error") # {}

\* C7: a phase whose required duration equals its supplied slots, the supply
\* above 0, gets a phase_saturation warning and no phase_saturation error
\* (required and supplied as accumulated, once per listing of the phase).
C7_FullUtilizationWarns ==
  Returned =>
    LET required == RequiredDuration
        supplied == SuppliedSlots
    IN \A p \in Phases :
         (required[p] = supplied[p] /\ supplied[p] > 0)
         => (Saturation(p, "warning") # {} /\ Saturation(p, "error") = {})

\* Two workers and a task meet at 100% of phase 1.
C7_Witness ==
  /\ lastRun.outcome = "completed"
  /\ Len(lastRun.input.workers) = 2
  /\ RequiredDuration[1] = SuppliedSlots[1] /\ SuppliedSlots[1] > 2
  /\ Saturation(1, "warning") # {}

\* C8 as stated: demand from 80% to 100% of a positive supply, both ends
\* included, gets a phase_saturation warning; demand below 80% gets no
\* phase_saturation finding.
C8_WarningFromEightyPercent ==
  Returned =>
    LET required == RequiredDuration
        supplied == SuppliedSlots
    IN \A p \in Phases :
         supplied[p] > 0 =>
           /\ (5 * required[p] >= 4 * supplied[p] /\ required[p] <= supplied[p])
              => Saturation(p, "warning") # {}
           /\ 5 * required[p] < 4 * supplied[p]
              => (Saturation(p, "warning") = {} /\ Saturation(p, "error") = {})

\* C8 amended: demand strictly above 80% and up to 100% of a positive supply
\* gets a phase_saturation warning; demand at or below 80% (so also demand 4
\* against supply 5) gets no phase_saturation finding.
C8_WarningAboveEightyPercent ==
  Returned =>
    LET required == RequiredDuration
        supplied == SuppliedSlots
    IN \A p \in Phases :
         supplied[p] > 0 =>
           /\ (5 * required[p] > 4 * supplied[p] /\ required[p] <= supplied[p])
              => Saturation(p, "warning") # {}
           /\ 5 * required[p] <= 4 * supplied[p]
              => (Saturation(p, "warning") = {} /\ Saturation(p, "error") = {})

\* Demand 4 against supply 5 in phase 1: no finding for the phase.
C8_Witness ==
  /\ lastRun.outcome = "completed"
  /\ RequiredDuration[1] = 4 /\ SuppliedSlots[1] = 5
  /\ Saturation(1, "warning") = {} /\ Saturation(1, "error") = {}

\* ------------------------------------------------ field types (C9)

MaxTyped == 1

ListText == <<"a", ",", " ", "b">>

TypedClients ==
  {Client("C1", 1, Str(<<"T1">>), Str(<<"{", "}">>)), Client("C1", 1, Num(2), Str(<<"x">>)),
   Client("C1", 1, Num(0), Absent), Client("C1", 1, Absent, Num(1))}

TypedWorkers ==
  {Worker("W1", Str(ListText), Str(ArrayText(<<1>>)), 1, "G1"), Worker("W1", Num(2), Str(<<"x">>), 1, "G1"),
   Worker("W1", Absent, Num(1), 1, "G1"), Worker("W1", Str(<<>>), Absent, 1, "G1")}

TypedTasks ==
  {Task("T1", 1, Str(ListText), Str(RangeText(1, 2)), 1), Task("T1", 1, Num(2), Str(ArrayText(<<1>>)), 1),
   Task("T1", 1, Absent, Num(1), 1), Task("T1", 1, Num(0), Absent, 1)}

InitTypes ==
  \E cs \in SeqsUpTo(TypedClients, MaxTyped), ws \in SeqsUpTo(TypedWorkers, MaxTyped),
     ts \in SeqsUpTo(TypedTasks, MaxTyped) :
    InitOver([clients |-> cs, workers |-> ws, tasks |-> ts, rules |-> <<>>])

SpecTypes == InitTypes /\ [][Next]_vars

\* C9: a run always completes and never throws, whatever the list and JSON
\* fields of the records hold (absent, empty, malformed or no string).
C9_RunNeverThrows == lastRun.outcome # "threw"

\* ---------------------------------------------------- repeated runs (C10)

MaxMixedRules == 4

\* Active rules that conflict and form a group, and inactive rules that would
\* change the findings if they took part.
MixedPool ==
  {CoRun("A", TRUE, <<"T1", "T2">>), PhaseWindow("P", TRUE, "T1", <<1>>),
   PhaseWindow("Q", TRUE, "T2", <<2>>),
   CoRun("J", FALSE, <<"T3", "T1">>), PhaseWindow("I", FALSE, "T2", <<1>>),
   LoadLimit("L", FALSE, "G1", 5)}

InitInactive ==
  \E rs \in SeqsUpTo(MixedPool, MaxMixedRules) :
    InitOver([clients |-> <<>>, workers |-> WithWorkerIds(<<GroupWorker(2, "G1")>>),
              tasks |-> <<PlainTask("T1"), PlainTask("T3")>>, rules |-> WithIds(rs)])

SpecInactive == InitInactive /\ [][Next]_vars

\* An input without its inactive rules.
ActivePart(in) ==
  [in EXCEPT !.rules = KeepIdx(in.rules, {i \in 1..Len(in.rules) : in.rules[i].active}, 1)]

\* The findings of the stored list that the AI block did not append.
OwnFindings == KeepIdx(validationErrors, {i \in 1..Len(validationErrors) :
                         validationErrors[i].message.text # "AI"}, 1)

\* The list a run without the AI layer stores over an input.
ListOver(in) == IF NoData(in) THEN <<>> ELSE Analyze(in)

\* C11 as stated: the finding list of a run is the list of a run over the same
\* clients, workers and tasks and the rule set without its inactive rules (so
\* two runs whose rule sets differ only in inactive rules store the same list).
C11_InactiveRulesNeverInfluence ==
  Returned => validationErrors = ListOver(ActivePart(lastRun.input))

\* C11 amended: apart from the findings the AI block appends, the finding list
\* of a run is the list of a run over the same clients, workers and tasks and
\* the rule set without its inactive rules; no circular_corun or
\* conflicting_rules finding depends on an inactive rule.
C11_InactiveRulesIgnored ==
  Returned => OwnFindings = ListOver(ActivePart(lastRun.input))

\* A run over conflicting active rules followed by an inactive window that
\* would resolve the conflict, and an inactive co-run group and load limit.
C11_Witness ==
  /\ lastRun.outcome = "completed"
  /\ Cardinality({i \in 1..Len(lastRun.input.rules) : ~lastRun.input.rules[i].active}) >= 1
  /\ Len(ActivePart(lastRun.input).rules) = 3
  /\ lastRun.input.rules[Len(lastRun.input.rules)].name = "I"
  /\ Cardinality(RuleFindings("conflicting_rules", "error", "A")) = 1
  /\ Len(Circular) > 0

\* ------------------------------------------------ duplicate identifiers (C12)

MaxSameIds == 3

PlainClient(id) == Client(id, 1, Str(<<>>), Str(<<>>))
PlainWorker(id) == Worker(id, Str(<<>>), Str(<<>>), 1, "G1")

IdValues == {"", "X1", "X2", "W1", "T1"}

InitIds ==
  \E cs \in SeqsUpTo({PlainClient(id) : id \in {"", "X1", "X2"}}, MaxSameIds),
     ws \in SeqsUpTo({PlainWorker(id) : id \in {"X1", "W1"}}, MaxWorkers),
     ts \in SeqsUpTo({PlainTask("T1")}, MaxTasks) :
    InitOver([clients |-> cs, workers |-> ws, tasks |-> ts, rules |-> <<>>])

SpecIds == InitIds /\ [][Next]_vars

\* The identifiers of the three collections of the latest run.
IdsOf(collection) ==
  CASE collection = "Clients" ->
         [i \in 1..Len(lastRun.input.clients) |-> lastRun.input.clients[i].ClientID]
    [] collection = "Workers" ->
         [i \in 1..Len(lastRun.input.workers) |-> lastRun.input.workers[i].WorkerID]
    [] collection = "Tasks" ->
         [i \in 1..Len(lastRun.input.tasks) |-> lastRun.input.tasks[i].TaskID]

\* The duplicate_id findings of a collection that name the value id.
DuplicateFindings(collection, id) ==
  {i \in 1..Len(validationErrors) :
     /\ validationErrors[i].type = "duplicate_id"
     /\ validationErrors[i].entity = Entity(collection, "", 0)
     /\ validationErrors[i].message.parts = <<id>>}

\* C12: within each collection an identifier value that occurs N > 1 times has
\* exactly N - 1 duplicate_id findings naming it, and a value that occurs once
\* (or not at all) has none.
C12_OneFindingPerRepeatedOccurrence ==
  Returned =>
    \A collection \in {"Clients", "Workers", "Tasks"} :
      LET ids == IdsOf(collection) IN
      \A id \in IdValues :
        LET n == Cardinality({i \in 1..Len(ids) : ids[i] = id})
        IN Cardinality(DuplicateFindings(collection, id)) = IF n > 1 THEN n - 1 ELSE 0

\* X1 occurs three times among the clients and once among the workers.
C12_Witness ==
  /\ lastRun.outcome = "completed"
  /\ Cardinality({i \in 1..Len(lastRun.input.clients) : lastRun.input.clients[i].ClientID = "X1"}) = 3
  /\ Cardinality({i \in 1..Len(lastRun.input.workers) : lastRun.input.workers[i].WorkerID = "X1"}) = 1
  /\ Cardinality(DuplicateFindings("Clients", "X1")) = 2
  /\ Cardinality(DuplicateFindings("Workers", "X1")) = 0

\* ------------------------------------------------ task references (C13)

MaxClients == 2

RefClient(id, requested) == Client(id, 1, Str(requested), Str(<<>>))

RefClientPool ==
  {RefClient("C1", <<"T1">>), RefClient("C1", <<"T1", ",", " ", "T9">>),
   RefClient("C1", <<"T9", ",", "T9">>), RefClient("C1", <<"T1", ",", ",", "T2", " ">>),
   RefClient("C1", <<" ">>), RefClient("C2", <<>>), RefClient("C2", <<"T9">>)}

InitRefs ==
  \E cs \in SeqsUpTo(RefClientPool, MaxClients),
     ts \in SeqsUpTo({PlainTask("T1"), PlainTask("T2")}, MaxTasks) :
    InitOver([clients |-> cs, workers |-> <<>>, tasks |-> ts, rules |-> <<>>])

SpecRefs == InitRefs /\ [][Next]_vars

RefTokens == {<<>>, <<"T1">>, <<"T2">>, <<"T9">>}

\* The unknown_reference errors for the client called id that name a token.
ReferenceFindings(id, token) ==
  {i \in 1..Len(validationErrors) :
     /\ validationErrors[i].type = "unknown_reference" /\ validationErrors[i].severity = "error"
     /\ validationErrors[i].entity = Entity("Client", id, 0)
     /\ validationErrors[i].message.parts = token}

\* How many of the trimmed tokens of the clients called id are the token.
TokenCount(in, id, token) ==
  LET Count(c) == IF c.ClientID = id /\ c.RequestedTaskIDs.t = "str"
                  THEN Cardinality({k \in 1..Len(SplitTrim(c.RequestedTaskIDs.s)) :
                                      SplitTrim(c.RequestedTaskIDs.s)[k] = token})
                  ELSE 0
  IN SumSeq([i \in 1..Len(in.clients) |-> Count(in.clients[i])])

\* C13: every non-empty trimmed token of a client's comma-split
\* RequestedTaskIDs that is no task's TaskID has exactly one unknown_reference
\* error naming it for that client; tokens that are a TaskID, and empty tokens,
\* have none.
C13_OneErrorPerUnknownToken ==
  Returned =>
    \A id \in {"C1", "C2"} : \A token \in RefTokens :
      Cardinality(ReferenceFindings(id, token))
        = IF token # <<>> /\ ~\E t \in TaskIdsOf(lastRun.input) : token = <<t>>
          THEN TokenCount(lastRun.input, id, token)
          ELSE 0

\* One client asks for T1 and T9 with a blank after the comma, T1 exists.
C13_Witness ==
  /\ lastRun.outcome = "completed"
  /\ TaskIdsOf(lastRun.input) = {"T1"}
  /\ \E i \in 1..Len(lastRun.input.clients) :
       lastRun.input.clients[i].RequestedTaskIDs.s = <<"T1", ",", " ", "T9">>
  /\ Cardinality(ReferenceFindings("C1", <<"T9">>)) = 1
  /\ Cardinality(ReferenceFindings("C1", <<"T1">>)) = 0

\* ------------------------------------------------ skill coverage (C14)

SkillTask(skills) == Task("", 1, Str(skills), Str(<<>>), 1)
SkillWorker(skills) == Worker("", Str(skills), Str(<<>>), 1, "G1")

SkillTaskPool ==
  {SkillTask(<<"a">>), SkillTask(<<"a", ",", " ", "b">>), SkillTask(<<"b", ",", ",", "a">>),
   SkillTask(<<" ">>)}

SkillWorkerPool ==
  {SkillWorker(<<"a">>), SkillWorker(<<"b", " ", ",", "c">>), SkillWorker(<<"a", ",">>)}

InitSkills ==
  \E ws \in SeqsUpTo(SkillWorkerPool, MaxWorkers), ts \in SeqsUpTo(SkillTaskPool, MaxTasks) :
    InitOver([clients |-> <<>>, workers |-> WithWorkerIds(ws), tasks |-> WithTaskIds(ts),
              rules |-> <<>>])

SpecSkills == InitSkills /\ [][Next]_vars

SkillTokens == {<<>>, <<"a">>, <<"b">>, <<"c">>}

\* The trimmed tokens of a comma-separated list field; an empty or absent field has none.
TokensOf(f) == IF f.t = "str" /\ f.s # <<>> THEN Range(SplitTrim(f.s)) ELSE {}

\* The missing_skill warnings that name a skill.
SkillFindings(skill) ==
  {i \in 1..Len(validationErrors) :
     /\ validationErrors[i].type = "missing_skill" /\ validationErrors[i].severity = "warning"
     /\ validationErrors[i].message.parts = skill}

\* C14: a missing_skill warning naming skill s is emitted exactly once iff s is
\* a trimmed token of some task's RequiredSkills and of no worker's Skills, and
\* not at all otherwise, however many tasks require s.
C14_OneWarningPerUncoveredSkill ==
  Returned =>
    \A skill \in SkillTokens :
      Cardinality(SkillFindings(skill))
        = IF /\ \E i \in 1..Len(lastRun.input.tasks) :
                  skill \in TokensOf(lastRun.input.tasks[i].RequiredSkills)
             /\ ~\E i \in 1..Len(lastRun.input.workers) :
                  skill \in TokensOf(lastRun.input.workers[i].Skills)
          THEN 1 ELSE 0

\* Two tasks require b, a worker has a only: one warning for b, none for a.
C14_Witness ==
  /\ lastRun.outcome = "completed"
  /\ Cardinality({i \in 1..Len(lastRun.input.tasks) :
                    <<"b">> \in TokensOf(lastRun.input.tasks[i].RequiredSkills)}) = 2
  /\ \E i \in 1..Len(lastRun.input.workers) : <<"a">> \in TokensOf(lastRun.input.workers[i].Skills)
  /\ Cardinality(SkillFindings(<<"b">>)) = 1
  /\ Cardinality(SkillFindings(<<"a">>)) = 0

\* ------------------------------------------------ numeric ranges (C15)

WithClientIds(cs) == [i \in 1..Len(cs) |-> [cs[i] EXCEPT !.ClientID = "C" \o ToString(i)]]

RangeClientPool == {Client("", p, Str(<<>>), Str(<<>>)) : p \in {0, 1, 5, 6}}
RangeTaskPool == {Task("", 0, Str(<<>>), Str(<<>>), 1), Task("", 1, Str(<<>>), Str(<<>>), 0),
                  Task("", 1, Str(<<>>), Str(<<>>), 1)}
RangeWorkerPool == {Worker("", Str(<<>>), Str(<<>>), load, "G1") : load \in {-1, 0, 1}}

\* Clients with tasks, or workers with tasks.
InitRanges ==
  \E ts \in SeqsUpTo(RangeTaskPool, MaxTasks) :
    \/ \E cs \in SeqsUpTo(RangeClientPool, MaxClients) :
         InitOver([clients |-> WithClientIds(cs), workers |-> <<>>, tasks |-> WithTaskIds(ts),
                   rules |-> <<>>])
    \/ \E ws \in SeqsUpTo(RangeWorkerPool, MaxWorkers) :
         InitOver([clients |-> <<>>, workers |-> WithWorkerIds(ws), tasks |-> WithTaskIds(ts),
                   rules |-> <<>>])

SpecRanges == InitRanges /\ [][Next]_vars

\* The error findings of a type about a field of the record called id.
FieldFindings(type, kind, id, field) ==
  {i \in 1..Len(validationErrors) :
     /\ validationErrors[i].type = type /\ validationErrors[i].severity = "error"
     /\ validationErrors[i].entity = Entity(kind, id, 0)
     /\ validationErrors[i].field = field}

One(condition) == IF condition THEN 1 ELSE 0

\* C15: every record has exactly one error of the matching kind when its
\* numeric field is out of range and none when it is in range: PriorityLevel
\* outside 1..5 (invalid_range), Duration < 1 (invalid_duration), MaxConcurrent
\* < 1 (invalid_concurrent), MaxLoadPerPhase < 1 (invalid_load); 0 is reported.
C15_OneErrorPerOutOfRangeField ==
  Returned =>
    /\ \A i \in 1..Len(lastRun.input.clients) :
         LET c == lastRun.input.clients[i] IN
         Cardinality(FieldFindings("invalid_range", "Client", c.ClientID, "PriorityLevel"))
           = One(c.PriorityLevel \notin 1..5)
    /\ \A i \in 1..Len(lastRun.input.tasks) :
         LET t == lastRun.input.tasks[i] IN
         /\ Cardinality(FieldFindings("invalid_duration", "Task", t.TaskID, "Duration"))
              = One(t.Duration < 1)
         /\ Cardinality(FieldFindings("invalid_concurrent", "Task", t.TaskID, "MaxConcurrent"))
              = One(t.MaxConcurrent < 1)
    /\ \A i \in 1..Len(lastRun.input.workers) :
         LET w == lastRun.input.workers[i] IN
         Cardinality(FieldFindings("invalid_load", "Worker", w.WorkerID, "MaxLoadPerPhase"))
           = One(w.MaxLoadPerPhase < 1)

\* A client with priority 6 beside one with priority 5, and a task with MaxConcurrent 0.
C15_Witness ==
  /\ lastRun.outcome = "completed"
  /\ \E i, j \in 1..Len(lastRun.input.clients) :
       /\ lastRun.input.clients[i].PriorityLevel = 6 /\ lastRun.input.clients[j].PriorityLevel = 5
       /\ Cardinality(FieldFindings("invalid_range", "Client", lastRun.input.clients[i].ClientID,
                                    "PriorityLevel")) = 1
       /\ FieldFindings("invalid_range", "Client", lastRun.input.clients[j].ClientID,
                        "PriorityLevel") = {}
  /\ \E i \in 1..Len(lastRun.input.tasks) :
       /\ lastRun.input.tasks[i].MaxConcurrent = 0
       /\ Cardinality(FieldFindings("invalid_concurrent", "Task", lastRun.input.tasks[i].TaskID,
                                    "MaxConcurrent")) = 1

\* ------------------------------------------------ AttributesJSON (C16)

\* Empty, an object, a truncated object, a bare word, blanks, a spreadsheet
\* number, and an unmapped column.
AttributePool ==
  {Str(<<>>), Str(<<"{", "m", "}">>), Str(<<"{", "m">>), Str(<<"x">>), Str(<<" ">>), Num(2), Absent}

InitJson ==
  \E as \in SeqsUpTo(AttributePool, MaxClients) :
    InitOver([clients |-> WithClientIds([i \in 1..Len(as) |-> Client("", 1, Str(<<>>), as[i])]),
              workers |-> <<>>, tasks |-> <<>>, rules |-> <<>>])

SpecJson == InitJson /\ [][Next]_vars

\* A field that holds something: a number or a text of at least one character.
NonEmpty(f) == f.t = "num" \/ (f.t = "str" /\ f.s # <<>>)

\* C16: every client whose AttributesJSON is non-empty and fails to parse as
\* JSON has exactly one invalid_json error; a client whose AttributesJSON is
\* empty or parses has none.
C16_OneErrorPerUnparsableAttributes ==
  Returned =>
    \A i \in 1..Len(lastRun.input.clients) :
      LET c == lastRun.input.clients[i] IN
      Cardinality(FieldFindings("invalid_json", "Client", c.ClientID, "AttributesJSON"))
        = One(NonEmpty(c.AttributesJSON) /\ ~JsonParse(c.AttributesJSON).ok)

\* A truncated object beside an empty field.
C16_Witness ==
  /\ lastRun.outcome = "completed"
  /\ \E i, j \in 1..Len(lastRun.input.clients) :
       /\ lastRun.input.clients[i].AttributesJSON = Str(<<"{", "m">>)
       /\ lastRun.input.clients[j].AttributesJSON = Str(<<>>)
       /\ Cardinality(FieldFindings("invalid_json", "Client", lastRun.input.clients[i].ClientID,
                                    "AttributesJSON")) = 1
       /\ FieldFindings("invalid_json", "Client", lastRun.input.clients[j].ClientID,
                        "AttributesJSON") = {}

\* ------------------------------------------------ the order of the stages (C17)

\* A client that fails four stages beside a sound one; repeating a record
\* repeats its identifier.
StageClientPool ==
  {Client("", 6, Str(<<"T9">>), Str(<<"{", "m">>)), Client("C1", 1, Str(<<>>), Str(<<>>))}

\* No workers, or one with unusable slots and no load beside one that supplies
\* phase 1 with fewer slots than its load.
StageWorkerLists ==
  {<<>>, <<Worker("W1", Str(<<"a">>), Str(<<"x">>), 0, "G1"),
           Worker("W1", Str(<<>>), Str(ArrayText(<<1>>)), 2, "G1")>>}

\* A task that fails its stages beside one that asks phase 1 for 3 units.
StageTaskPool ==
  {Task("T1", 0, Str(<<"b">>), Str(<<"x">>), 0),
   Task("T1", 3, Str(<<>>), Str(ArrayText(<<1>>)), 1)}

\* No rules, or a co-run group whose two tasks have disjoint phase windows.
StageRuleLists ==
  {<<>>, WithIds(<<CoRun("A", TRUE, <<"T1", "T2">>), PhaseWindow("P", TRUE, "T1", <<1>>),
                   PhaseWindow("Q", TRUE, "T2", <<2>>)>>)}

InitStages ==
  \E cs \in SeqsUpTo(StageClientPool, MaxClients), ws \in StageWorkerLists,
     ts \in SeqsUpTo(StageTaskPool, MaxTasks), rs \in StageRuleLists :
    InitOver([clients |-> cs, workers |-> ws, tasks |-> ts, rules |-> rs])

SpecStages == InitStages /\ [][Next]_vars

\* The place of a kind of finding in the stated order; 0 for a kind it does not name.
StageOf(type) ==
  IF type \in {"missing_id", "duplicate_id", "invalid_range", "invalid_duration"} THEN 1
  ELSE IF type = "unknown_reference" THEN 2
  ELSE IF type = "missing_skill" THEN 3
  ELSE IF type \in {"invalid_json", "invalid_slots", "invalid_phases"} THEN 4
  ELSE IF type \in {"invalid_concurrent", "invalid_load"} THEN 5
  ELSE IF type = "circular_corun" THEN 6
  ELSE IF type = "conflicting_rules" THEN 7
  ELSE IF type = "phase_saturation" THEN 9
  ELSE 0

\* The place of every kind the run can push.
FullStageOf(type) ==
  IF type = "overloaded_worker" THEN 8
  ELSE IF type \in {"content_quality", "ai_rule_suggestion"} THEN 10
  ELSE StageOf(type)

ContainWorkerPool ==
  {PhaseWorker(<<"x">>, 2), PhaseWorker(ArrayText(<<0>>), 2), PhaseWorker(ArrayText(<<1>>), 2)}

\* Phases that are neither JSON nor a range, phases that list phase 0, and sound phases.
ContainTaskPool ==
  {PhaseTask(<<"x">>, 3), PhaseTask(ArrayText(<<0>>), 3), PhaseTask(ArrayText(<<1>>), 3)}

InitContain ==
  \E ws \in SeqsUpTo(ContainWorkerPool, MaxWorkers), ts \in SeqsUpTo(ContainTaskPool, MaxTasks) :
    InitOver([clients |-> <<>>, workers |-> WithWorkerIds(ws), tasks |-> WithTaskIds(ts),
              rules |-> <<>>])

SpecContain == InitContain /\ [][Next]_vars

\* The records of the latest run that the slot and phase stages reject.
RejectedWorkers ==
  {i \in 1..Len(lastRun.input.workers) : InvalidSlots(<<lastRun.input.workers[i]>>) # <<>>}
RejectedTasks ==
  {i \in 1..Len(lastRun.input.tasks) : InvalidPhases(<<lastRun.input.tasks[i]>>) # <<>>}

\* The latest run's workers and tasks, the phase field of a rejected record emptied.
WithoutRejectedSlots ==
  [i \in 1..Len(lastRun.input.workers) |->
     IF i \in RejectedWorkers THEN [lastRun.input.workers[i] EXCEPT !.AvailableSlots = Str(<<>>)]
     ELSE lastRun.input.workers[i]]
WithoutRejectedPhases ==
  [i \in 1..Len(lastRun.input.tasks) |->
     IF i \in RejectedTasks THEN [lastRun.input.tasks[i] EXCEPT !.PreferredPhases = Str(<<>>)]
     ELSE lastRun.input.tasks[i]]

\* C18: a run over a worker whose AvailableSlots is rejected (invalid_slots) or
\* a task whose PreferredPhases is rejected (invalid_phases) completes, the
\* record has its own invalid_* finding, and the phase_saturation findings are
\* those of the data without the rejected records' supply and demand.
C18_MalformedPhaseFieldContained ==
  (lastRun.outcome # "none" /\ (RejectedWorkers # {} \/ RejectedTasks # {})) =>
    /\ lastRun.outcome = "completed"
    /\ \A i \in RejectedWorkers :
         FieldFindings("invalid_slots", "Worker", lastRun.input.workers[i].WorkerID,
                       "AvailableSlots") # {}
    /\ \A i \in RejectedTasks :
         FieldFindings("invalid_phases", "Task", lastRun.input.tasks[i].TaskID,
                       "PreferredPhases") # {}
    /\ OfType(validationErrors, "phase_saturation")
         = PhaseSaturation(WithoutRejectedSlots, WithoutRejectedPhases)

\* ------------------------------------------------ range text and array text (C19)

\* Ranges from phase 0 and from phase 1 up, a one-phase range, and an array.
EncodingTaskPool ==
  {PhaseTask(RangeText(0, 1), 3), PhaseTask(RangeText(1, 2), 3), PhaseTask(RangeText(2, 2), 1),
   PhaseTask(ArrayText(<<1, 2>>), 3)}

EncodingWorkerPool == {PhaseWorker(ArrayText(<<1>>), 2), PhaseWorker(ArrayText(<<1, 2>>), 4)}

InitEncodings ==
  \E ws \in SeqsUpTo(EncodingWorkerPool, MaxWorkers), ts \in SeqsUpTo(EncodingTaskPool, MaxTasks) :
    InitOver([clients |-> <<>>, workers |-> WithWorkerIds(ws), tasks |-> WithTaskIds(ts),
              rules |-> <<>>])

SpecEncodings == InitEncodings /\ [][Next]_vars

\* A field holding the range text "a-b" with a <= b.
IsRange(f) == f.t = "str" /\ RangeMatch(f.s) /\ ParseInt(f.s[1]) <= ParseInt(f.s[3])

\* The tasks that hold a range text.
RangeTasks(in) == {i \in 1..Len(in.tasks) : IsRange(in.tasks[i].PreferredPhases)}

\* The same data, every range text "a-b" replaced by the array text [a, ..., b].
AsArrays(in) ==
  [in EXCEPT !.tasks =
     [i \in 1..Len(in.tasks) |->
        IF i \in RangeTasks(in)
        THEN [in.tasks[i] EXCEPT
                !.PreferredPhases = Str(ArrayText([k \in 1..(ParseInt(@.s[3]) - ParseInt(@.s[1]) + 1) |->
                                                     ParseInt(@.s[1]) + k - 1]))]
        ELSE in.tasks[i]]]

\* C19: a run over tasks whose PreferredPhases is a range text "a-b" (a <= b)
\* yields the findings of the run over the same data with the array text
\* [a, ..., b] in its place (the AI block's findings aside), and neither list
\* has an invalid_phases finding about such a task.
C19_RangeAndArrayEquivalent ==
  Returned =>
    LET other == ListOver(AsArrays(lastRun.input)) IN
    /\ OwnFindings = other
    /\ \A i \in RangeTasks(lastRun.input) :
         /\ FieldFindings("invalid_phases", "Task", lastRun.input.tasks[i].TaskID,
                          "PreferredPhases") = {}
         /\ \A k \in 1..Len(other) :
              ~(other[k].type = "invalid_phases"
                /\ other[k].entity = Entity("Task", lastRun.input.tasks[i].TaskID, 0))

\* ------------------------------------------------ the export tab (C20)

\* validationErrors.filter(e => e.severity === 'error').length > 0
hasErrors == \E i \in 1..Len(validationErrors) : validationErrors[i].severity = "error"

totalRecords == Len(clients) + Len(workers) + Len(tasks)

\* rules.filter(r => r.active).length
totalRules == Cardinality({i \in 1..Len(rules) : rules[i].active})

FileTypes == {"clients", "workers", "tasks", "rules"}

\* The file exportSingleFile downloads for a type.
FileOf(type) ==
  IF type = "rules" THEN "rules_config.json" ELSE type \o "_clean.csv"

\* A click on the complete-package button (disabled on findings of severity
\* error, without records, and while exporting): exportAll up to its first await.
ExportAll ==
  /\ ~(hasErrors \/ totalRecords = 0 \/ isExporting)
  /\ isExporting' = TRUE
  /\ UNCHANGED <<clients, workers, tasks, rules, validationErrors, isValidating, aiSuggestions,
                 showSuggestions, aiAvailable, pending, lastRun, runs, downloaded,
                 scheduled, applied>>

\* The five timers of exportAll have passed: the four files are downloaded.
ExportAllDownloads ==
  /\ isExporting
  /\ downloaded' = <<"clients_clean.csv", "workers_clean.csv", "tasks_clean.csv", "rules_config.json">>
  /\ isExporting' = FALSE
  /\ UNCHANGED <<clients, workers, tasks, rules, validationErrors, isValidating, aiSuggestions,
                 showSuggestions, aiAvailable, pending, lastRun, runs, scheduled, applied>>

\* A click on an individual export button (disabled when its collection is
\* empty and while exporting).
ExportSingleFile(type) ==
  /\ ~isExporting
  /\ CASE type = "clients" -> Len(clients) # 0
       [] type = "workers" -> Len(workers) # 0
       [] type = "tasks" -> Len(tasks) # 0
       [] type = "rules" -> totalRules # 0
  /\ downloaded' = <<FileOf(type)>>
  /\ UNCHANGED <<clients, workers, tasks, rules, validationErrors, isValidating, aiSuggestions,
                 showSuggestions, aiAvailable, pending, lastRun, runs, isExporting,
                 scheduled, applied>>

ExportSingle == \E type \in FileTypes : ExportSingleFile(type)

NextExport ==
  RunValidations \/ AiSettles \/ InitializeAI \/ ExportAll \/ ExportAllDownloads \/ ExportSingle

\* Clients with a sound and with an out-of-range priority, a sound worker, task and rule.
InitExport ==
  \E cs \in SeqsUpTo({Client("", 1, Str(<<>>), Str(<<>>)), Client("", 6, Str(<<>>), Str(<<>>))}, MaxClients),
     ws \in SeqsUpTo({GroupWorker(2, "G1")}, MaxWorkers),
     ts \in SeqsUpTo({PlainTask("")}, MaxTasks),
     rs \in {<<>>, <<PhaseWindow("P", TRUE, "T1", <<1>>)>>} :
    InitOver([clients |-> WithClientIds(cs), workers |-> WithWorkerIds(ws), tasks |-> WithTaskIds(ts),
              rules |-> WithIds(rs)])

SpecExport == InitExport /\ [][NextExport]_vars

\* C20: no step in which an export downloads files (the complete package or
\* an individual file) is taken from a state whose stored finding list holds a
\* finding of severity error.
C20_NoDownloadWhileErrors ==
  [][(ExportAllDownloads \/ ExportSingle) => ~hasErrors]_vars

\* ------------------------------------------------ suggestion derivation (C23)

\* The place of the kind a suggestion type is derived from; 0 for no such kind.
KindPlace(type) ==
  IF \E k \in 1..Len(SuggestionKinds) : SuggestionKinds[k][2] = type
  THEN CHOOSE k \in 1..Len(SuggestionKinds) : SuggestionKinds[k][2] = type
  ELSE 0

\* The places of the kinds that have a finding in the stored list.
KindsPresent ==
  {k \in 1..Len(SuggestionKinds) :
     \E i \in 1..Len(validationErrors) : validationErrors[i].type = SuggestionKinds[k][1]}

\* C23: the suggestions a completed run derives are exactly one for each of
\* the seven kinds missing_skill, invalid_json, duplicate_id, phase_saturation,
\* conflicting_rules, overloaded_worker and unknown_reference that has a finding
\* in the list, none for any other kind, and they come in that kind order.
C23_OneSuggestionPerKindPresent ==
  lastRun.outcome = "completed" =>
    LET present == KindsPresent
        places == [i \in 1..Len(aiSuggestions) |-> KindPlace(aiSuggestions[i].type)]
    IN /\ Len(SuggestionKinds) = 7
       /\ Len(aiSuggestions) <= 7
       /\ \A i \in 1..Len(places) : places[i] \in present
       /\ \A k \in present : Cardinality({i \in 1..Len(places) : places[i] = k}) = 1
       /\ \A i, j \in 1..Len(places) : i < j => places[i] < places[j]

\* All seven kinds present, one of them with two findings.
C23_Witness ==
  /\ lastRun.outcome = "completed"
  /\ Len(aiSuggestions) = 7
  /\ Len(OfType(validationErrors, "duplicate_id")) >= 2
  /\ Len(OfType(validationErrors, "invalid_slots")) >= 1

\* ------------------------------------------------ one report per cycle (C24)

\* The task nodes a circular_corun finding reports.
NodesOf(finding) == Range(finding.message.parts)

\* C24: within one run no two circular_corun findings report the same set of
\* task nodes, whatever the order of the task collection.
C24_NoCycleReportedTwice ==
  Returned =>
    LET circular == Circular IN
    \A i, j \in 1..Len(circular) : i < j => NodesOf(circular[i]) # NodesOf(circular[j])

\* Two findings in one list, each from its own entry task.
C24_Witness ==
  /\ lastRun.outcome = "completed"
  /\ Len(Circular) >= 2
  /\ Len(lastRun.input.tasks) = 2
  /\ lastRun.input.tasks[1].TaskID # lastRun.input.tasks[2].TaskID

\* ------------------------------------------------ the traversal ends (C25)

\* A group that repeats a task, and two more groups that overlap it and close
\* a cycle over three tasks.
TraversalPool ==
  {CoRun("A", TRUE, <<"T1", "T1", "T2">>), CoRun("B", TRUE, <<"T2", "T3">>),
   CoRun("C", TRUE, <<"T3", "T1">>)}

InitTraversal ==
  \E ts \in CycleTaskLists, rs \in SeqsUpTo(TraversalPool, MaxCoRunRules) :
    InitOver([clients |-> <<>>, workers |-> <<>>, tasks |-> ts, rules |-> WithIds(rs)])

SpecTraversal == InitTraversal /\ [][Next]_vars

\* The task identifiers a run can meet: those of the collection and of the groups.
KnownTasks(in) == TaskIdsOf(in) \cup UNION {Range(g) : g \in CoRunGroups(in)}

\* C25: cycle detection ends for every task collection and every set of
\* active coRun rules: the run returns, and its traversal expands each task
\* identifier at most once, so no more tasks than there are identifiers.
C25_EachTaskExpandedAtMostOnce ==
  Returned =>
    LET expanded == CycleTraversal(lastRun.input.tasks, lastRun.input.rules).expanded IN
    /\ \A i, j \in 1..Len(expanded) : i < j => expanded[i] # expanded[j]
    /\ Range(expanded) \subseteq KnownTasks(lastRun.input)
    /\ Len(expanded) <= Cardinality(KnownTasks(lastRun.input))

\* A repeated task, overlapping groups and a cycle over three tasks, all expanded.
C25_Witness ==
  /\ lastRun.outcome = "completed"
  /\ Cardinality(CoRunGroups(lastRun.input)) = 3
  /\ Len(Circular) > 0
  /\ Len(CycleTraversal(lastRun.input.tasks, lastRun.input.rules).expanded) = 3

\* ------------------------------------------------ one finding per phase (C28)

\* C28: every finding list holds at most one phase_saturation finding per
\* phase (its error and its warning exclude each other), and none for a phase
\* that only workers with positive MaxLoadPerPhase list and no task asks for.
C28_AtMostOneSaturationPerPhase ==
  Returned =>
    LET demand == DemandLists
        supply == SupplyLists
        about == [p \in Phases |->
                    {i \in 1..Len(validationErrors) :
                       /\ validationErrors[i].type = "phase_saturation"
                       /\ validationErrors[i].entity = Entity("Phase", "", p)}]
    IN \A p \in Phases :
         /\ Cardinality(about[p]) <= 1
         /\ ( /\ \E w \in 1..Len(supply) : p \in Range(supply[w])
              /\ \A w \in 1..Len(supply) :
                   p \in Range(supply[w]) => lastRun.input.workers[w].MaxLoadPerPhase > 0
              /\ \A t \in 1..Len(demand) : p \notin Range(demand[t]) )
            => about[p] = {}

\* A saturated phase with its one error beside a phase only a worker lists.
C28_Witness ==
  /\ lastRun.outcome = "completed"
  /\ Cardinality(Saturation(1, "error")) = 1
  /\ Saturation(1, "warning") = {}
  /\ \E w \in 1..Len(lastRun.input.workers) : 2 \in Range(SupplyPhases(lastRun.input.workers[w]))
  /\ \A t \in 1..Len(lastRun.input.tasks) : 2 \notin Range(DemandPhases(lastRun.input.tasks[t]))
  /\ Saturation(2, "error") \cup Saturation(2, "warning") = {}

\* ------------------------------------------------ the early return (C29)

\* A co-run group whose tasks have disjoint windows, and a limit above the
\* capacity of its group.
EmptyRulePool ==
  {CoRun("A", TRUE, <<"T1", "T2">>), PhaseWindow("P", TRUE, "T1", <<1>>),
   PhaseWindow("Q", TRUE, "T2", <<2>>), LoadLimit("L", TRUE, "G1", 1)}

InitEmpty ==
  \E ts \in SeqsUpTo({PlainTask("T1")}, MaxTasks), rs \in SeqsUpTo(EmptyRulePool, MaxCoRunRules) :
    InitOver([clients |-> <<>>, workers |-> <<>>, tasks |-> ts, rules |-> WithIds(rs)])

SpecEmpty == InitEmpty /\ [][Next]_vars

\* Data without a client, a worker or a task.
AllEmpty(in) == in.clients = <<>> /\ in.workers = <<>> /\ in.tasks = <<>>

\* C29: a run over empty clients, workers and tasks collections stores an
\* empty finding list and returns before any check, so the list has no
\* circular_corun or conflicting_rules finding whatever the active rules, and
\* isValidating is false again.
C29_EmptyDataReturnsEarly ==
  (lastRun.outcome # "none" /\ AllEmpty(lastRun.input)) =>
    /\ lastRun.outcome = "early"
    /\ validationErrors = <<>>
    /\ OfType(validationErrors, "circular_corun") = <<>>
    /\ OfType(validationErrors, "conflicting_rules") = <<>>
    /\ ~isValidating
    /\ ~pending.active

\* An early return under rules the rule checks would have objected to.
C29_Witness ==
  /\ lastRun.outcome = "early"
  /\ aiAvailable
  /\ ConflictingRules(lastRun.input.workers, lastRun.input.rules) # <<>>

\* ------------------------------------------------ several windows on one task (C30)

\* The active co-run rules with a member task that several active windows target.
ManyWindowed(in) ==
  {i \in ActiveOf(in, "coRun") :
     in.rules[i].hasTasks /\ \E t \in Range(in.rules[i].tasks) : Cardinality(WindowsOn(in, t)) >= 2}

\* C30: for a co-run rule with a task that several active phaseWindow rules
\* target, the conflict check takes only the last window of each task: the
\* rule has a conflicting_rules error iff two or more tasks are constrained
\* and their last windows share no phase, and the finding names each
\* constrained task once.
C30_LastWindowOfATaskCounts ==
  lastRun.outcome = "completed" =>
    \A i \in ManyWindowed(lastRun.input) :
      LET r == lastRun.input.rules[i]
          found == RuleFindings("conflicting_rules", "error", r.name)
      IN /\ (found # {}) <=> (/\ Cardinality(Constrained(lastRun.input, r)) >= 2
                              /\ CommonOfLast(lastRun.input, r) = {})
         /\ \A f \in found :
              LET named == validationErrors[f].message.parts IN
              /\ Range(named) = Constrained(lastRun.input, r)
              /\ Len(named) = Cardinality(Constrained(lastRun.input, r))

\* T1 under the windows [1] and then [1, 2], T2 under [2]: the earlier window
\* alone would leave no common phase, the last one leaves phase 2.
C30_Witness ==
  /\ lastRun.outcome = "completed"
  /\ \E i \in ManyWindowed(lastRun.input) :
       /\ Cardinality(Constrained(lastRun.input, lastRun.input.rules[i])) = 2
       /\ CommonOfAll(lastRun.input, lastRun.input.rules[i]) = {}
       /\ CommonOfLast(lastRun.input, lastRun.input.rules[i]) = {2}
       /\ RuleFindings("conflicting_rules", "error", lastRun.input.rules[i].name) = {}

\* ------------------------------------------------ applying a suggestion

\* `${id}_${counter}`
Suffixed(id, counter) == id \o "_" \o ToString(counter)

\* The renaming loop with a single try: the first suffix is taken unchecked.
RECURSIVE NewId(_, _, _, _)
NewIdFirstSuffix(id, newId, counter, seen) ==
  IF newId \in seen THEN Suffixed(id, counter) ELSE newId

\* while (ids.has(newId)) { newId = `${id}_${counter}`; counter++ }
NewId(id, newId, counter, seen) ==
  IF newId \in seen THEN NewId(id, Suffixed(id, counter), counter + 1, seen) ELSE newId

\* The identifiers the map of fix_duplicates gives a collection with these ones.
RECURSIVE FixedIdsFrom(_, _, _)
FixedIdsFrom(ids, i, seen) ==
  IF i > Len(ids) THEN <<>>
  ELSE LET newId == NewId(ids[i], ids[i], 1, seen) IN
       <<newId>> \o FixedIdsFrom(ids, i + 1, seen \cup {newId})

FixedIds(ids) == FixedIdsFrom(ids, 1, {})

\* case 'fix_duplicates'
FixDuplicates(d) ==
  LET cids == FixedIds([i \in 1..Len(d.clients) |-> d.clients[i].ClientID])
      wids == FixedIds([i \in 1..Len(d.workers) |-> d.workers[i].WorkerID])
      tids == FixedIds([i \in 1..Len(d.tasks) |-> d.tasks[i].TaskID])
  IN [d EXCEPT !.clients = [i \in 1..Len(d.clients) |-> [d.clients[i] EXCEPT !.ClientID = cids[i]]],
               !.workers = [i \in 1..Len(d.workers) |-> [d.workers[i] EXCEPT !.WorkerID = wids[i]]],
               !.tasks = [i \in 1..Len(d.tasks) |-> [d.tasks[i] EXCEPT !.TaskID = tids[i]]]]

\* '{"budget": 50000, "timeline": "Q1", "priority": "medium"}'
DefaultAttributes == Str(<<"{", "m", ",", "m", ",", "m", "}">>)

\* case 'fix_json': the records of the clients array are assigned to in place.
FixJson(d) ==
  [d EXCEPT !.clients =
     [i \in 1..Len(d.clients) |->
        IF JsonParse(d.clients[i].AttributesJSON).ok THEN d.clients[i]
        ELSE [d.clients[i] EXCEPT !.AttributesJSON = DefaultAttributes]]]

\* case 'fix_overload'
FixOverload(d) ==
  [d EXCEPT !.workers =
     [i \in 1..Len(d.workers) |->
        LET w == d.workers[i]
            availableSlots == JsonParse(w.AvailableSlots)
        IN IF ~availableSlots.ok
           THEN [w EXCEPT !.MaxLoadPerPhase = 3, !.AvailableSlots = Str(ArrayText(<<1, 2, 3, 4>>))]
           ELSE IF availableSlots.kind = "array" /\ Len(availableSlots.arr) < w.MaxLoadPerPhase
           THEN [w EXCEPT !.MaxLoadPerPhase = Len(availableSlots.arr)]
           ELSE w]]

\* Array.prototype.join(', ')
RECURSIVE Join(_)
Join(parts) ==
  IF parts = <<>> THEN <<>>
  ELSE IF Len(parts) = 1 THEN parts[1]
  ELSE parts[1] \o <<",", " ">> \o Join(Tail(parts))

\* case 'fix_references': split is called on every truthy RequestedTaskIDs.
FixReferencesThrows(d) ==
  \E i \in 1..Len(d.clients) :
    Truthy(d.clients[i].RequestedTaskIDs) /\ ~HasStringMethods(d.clients[i].RequestedTaskIDs)

FixReferences(d) ==
  LET existingTaskIds == [i \in 1..Len(d.tasks) |-> IdText(d.tasks[i].TaskID)] IN
  [d EXCEPT !.clients =
     [i \in 1..Len(d.clients) |->
        LET c == d.clients[i] IN
        IF Truthy(c.RequestedTaskIDs)
        THEN LET requestedTasks == SplitTrim(c.RequestedTaskIDs.s)
                 validTasks == KeepIdx(requestedTasks,
                                       {j \in 1..Len(requestedTasks) :
                                          Includes(existingTaskIds, requestedTasks[j])}, 1)
             IN [c EXCEPT !.RequestedTaskIDs = Str(Join(validTasks))]
        ELSE c]]

\* case 'rebalance_phases': every third task, counted from the first.
Min(a, b) == IF a < b THEN a ELSE b

RebalanceThrows(d) ==
  \E i \in 1..Len(d.tasks) :
    /\ (i - 1) % 3 = 0
    /\ ~JsonParse(d.tasks[i].PreferredPhases).ok
    /\ ~HasStringMethods(d.tasks[i].PreferredPhases)

RebalancePhases(d) ==
  [d EXCEPT !.tasks =
     [i \in 1..Len(d.tasks) |->
        LET t == d.tasks[i]
            phases == JsonParse(t.PreferredPhases)
        IN IF (i - 1) % 3 # 0 THEN t
           ELSE IF phases.ok
           THEN (IF phases.kind = "array" /\ \E k \in 1..Len(phases.arr) : phases.arr[k] <= 2
                 THEN [t EXCEPT !.PreferredPhases =
                         Str(ArrayText([k \in 1..Len(phases.arr) |-> Min(phases.arr[k] + 2, 6)]))]
                 ELSE t)
           ELSE IF HasStringMethods(t.PreferredPhases) /\ RangeMatch(t.PreferredPhases.s)
           THEN [t EXCEPT !.PreferredPhases =
                   Str(RangeText(Min(ParseInt(t.PreferredPhases.s[1]) + 2, 5),
                                 Min(ParseInt(t.PreferredPhases.s[3]) + 2, 6)))]
           ELSE t]]

\* String.prototype.includes over texts: part occurs in s as a run of characters.
IncludesText(s, part) ==
  \E k \in 0..(Len(s) - Len(part)) : SubSeq(s, k + 1, k + Len(part)) = part

\* suggestedAssignments of the add_worker_skill suggestion: per missing_skill
\* finding, the skill and the first two expert or advanced workers of the run.
SuggestedAssignments(errs, ws) ==
  LET missing == OfType(errs, "missing_skill")
      suitable == KeepIdx(ws, {i \in 1..Len(ws) : ws[i].QualificationLevel \in {"expert", "advanced"}}, 1)
      firstTwo == SubSeq(suitable, 1, Min(2, Len(suitable)))
  IN [i \in 1..Len(missing) |->
        [skill |-> missing[i].message.parts,
         workers |-> [j \in 1..Len(firstTwo) |-> firstTwo[j].WorkerID]]]

\* One step of the two nested forEach loops over the pairs (skill, workerId):
\* r is [workers, threw]; toLowerCase exists on strings only.
AssignSkill(r, skill, workerId) ==
  LET hits == {i \in 1..Len(r.workers) : r.workers[i].WorkerID = workerId} IN
  IF r.threw \/ hits = {} THEN r
  ELSE LET workerIndex == CHOOSE i \in hits : \A j \in hits : i <= j
           currentSkills == r.workers[workerIndex].Skills
       IN IF ~HasStringMethods(currentSkills) THEN [r EXCEPT !.threw = TRUE]
          ELSE IF IncludesText(currentSkills.s, skill) THEN r
          ELSE [r EXCEPT !.workers[workerIndex].Skills = Str(currentSkills.s \o <<",", " ">> \o skill)]

RECURSIVE AssignAll(_, _)
AssignAll(r, pairs) ==
  IF pairs = <<>> THEN r ELSE AssignAll(AssignSkill(r, Head(pairs)[1], Head(pairs)[2]), Tail(pairs))

\* case 'add_worker_skill': [workers, threw]; the records are assigned to in place.
AddWorkerSkill(d, assignments) ==
  LET P(a, i) == [j \in 1..Len(a.workers) |-> <<a.skill, a.workers[j]>>] IN
  AssignAll([workers |-> d.workers, threw |-> FALSE], ForEach(assignments, P))

\* What applyAiSuggestion makes of the collections d for a suggestion type:
\* [data, done, inPlace].  done is FALSE when the switch throws or the type has
\* no case; inPlace tells that records were assigned to, so that every holder of
\* the old arrays sees the change.
ApplyOutcome(type, d, errs, ranWorkers) ==
  CASE type = "add_worker_skill" ->
         LET r == AddWorkerSkill(d, SuggestedAssignments(errs, ranWorkers)) IN
         [data |-> [d EXCEPT !.workers = r.workers], done |-> ~r.threw, inPlace |-> TRUE]
    [] type = "fix_json" -> [data |-> FixJson(d), done |-> TRUE, inPlace |-> TRUE]
    [] type = "fix_duplicates" -> [data |-> FixDuplicates(d), done |-> TRUE, inPlace |-> FALSE]
    [] type = "fix_overload" -> [data |-> FixOverload(d), done |-> TRUE, inPlace |-> FALSE]
    [] type = "fix_references" ->
         IF FixReferencesThrows(d) THEN [data |-> d, done |-> FALSE, inPlace |-> FALSE]
         ELSE [data |-> FixReferences(d), done |-> TRUE, inPlace |-> FALSE]
    [] type = "rebalance_phases" ->
         IF RebalanceThrows(d) THEN [data |-> d, done |-> FALSE, inPlace |-> FALSE]
         ELSE [data |-> RebalancePhases(d), done |-> TRUE, inPlace |-> FALSE]
    [] OTHER -> [data |-> d, done |-> FALSE, inPlace |-> FALSE]

\* A click on the Apply button of the k-th suggestion: applyAiSuggestion up to
\* its setTimeout.  The timer holds the runValidations of the render of the
\* click, whose closure has the arrays of before the setters (one timer at a time).
ApplyAiSuggestion(k) ==
  /\ showSuggestions
  /\ ~scheduled.active
  /\ LET type == aiSuggestions[k].type
         o == ApplyOutcome(type, Snapshot, validationErrors, lastRun.input.workers)
     IN /\ clients' = o.data.clients
        /\ workers' = o.data.workers
        /\ tasks' = o.data.tasks
        /\ IF o.done
           THEN /\ aiSuggestions' = KeepIdx(aiSuggestions, {i \in 1..Len(aiSuggestions) : i # k}, 1)
                /\ scheduled' = [active |-> TRUE, input |-> IF o.inPlace THEN o.data ELSE Snapshot]
                /\ applied' = type
           ELSE UNCHANGED <<aiSuggestions, scheduled, applied>>
  /\ UNCHANGED <<rules, validationErrors, isValidating, showSuggestions, aiAvailable, pending,
                 lastRun, runs, isExporting, downloaded>>

ApplySuggestion == \E k \in 1..Len(aiSuggestions) : ApplyAiSuggestion(k)

\* The timer set by applyAiSuggestion fires.
ScheduledRun == RunValidationsBy("timer")

NextApply ==
  \/ \E caller \in Callers : RunValidationsBy(caller)
  \/ AiSettles
  \/ InitializeAI
  \/ ApplySuggestion

\* A client with sound attributes, and one with broken attributes and a
\* reference to no task; they share their identifier.
SoundClient == Client("X1", 1, Str(<<>>), Str(<<"{", "m", "}">>))

BrokenClient == Client("X1", 1, Str(<<"T9">>), Str(<<"{", "m">>))

ApplyClientLists == {<<>>, <<SoundClient, BrokenClient>>, <<SoundClient, SoundClient, SoundClient>>}

\* No worker, or one with fewer slots than its load.
ApplyWorkerLists == {<<>>, <<Worker("W1", Str(<<>>), Str(ArrayText(<<1>>)), 2, "G1")>>}

ApplyTaskLists == {<<>>, <<PlainTask("T1")>>}

InitApply ==
  \E cs \in ApplyClientLists, ws \in ApplyWorkerLists, ts \in ApplyTaskLists :
    InitOver([clients |-> cs, workers |-> ws, tasks |-> ts, rules |-> <<>>])

SpecApply == InitApply /\ [][NextApply]_vars

\* The identifiers of each collection are pairwise distinct.
PairwiseDistinctIds ==
  /\ \A i, j \in 1..Len(clients) : clients[i].ClientID = clients[j].ClientID => i = j
  /\ \A i, j \in 1..Len(workers) : workers[i].WorkerID = workers[j].WorkerID => i = j
  /\ \A i, j \in 1..Len(tasks) : tasks[i].TaskID = tasks[j].TaskID => i = j

\* The step in which a suggestion of this type is applied to the end.
AppliesType(type) == ApplySuggestion /\ scheduled'.active /\ applied' = type

\* C27: applying fix_duplicates leaves the identifiers of each collection
\* pairwise distinct, so that the duplicate check finds nothing in the result.
C27_FixDuplicatesLeavesDistinctIds ==
  [][AppliesType("fix_duplicates") =>
       /\ PairwiseDistinctIds'
       /\ DuplicateIds(clients', workers', tasks') = <<>>]_vars

\* fix_duplicates has just renamed the second and the third of three clients
\* that shared an identifier.
C27_Witness ==
  /\ scheduled.active
  /\ applied = "fix_duplicates"
  /\ Len(clients) = 3
  /\ clients[2].ClientID = "X1_1"
  /\ clients[3].ClientID = "X1_2"

\* C26: the run that applyAiSuggestion schedules analyses the collections as
\* the suggestion left them: the list it stores is the analysis of the data
\* of the moment it runs (stated for runs without an AI pass, which store at once).
C26_ScheduledRunAnalysesModifiedData ==
  [][(ScheduledRun /\ ~aiAvailable) => validationErrors' = ListOver(Snapshot')]_vars

\* C22: a validation run, whether started by the button or by the timer, and
\* with its suggestion derivation, leaves clients, workers, tasks and rules as
\* they are; the collections change only in the step that applies a suggestion.
C22_RunLeavesDataUnchanged ==
  [][/\ (RunValidations \/ AiSettles \/ ScheduledRun) => UNCHANGED <<clients, workers, tasks, rules>>
     /\ (<<clients, workers, tasks, rules>>' # <<clients, workers, tasks, rules>>) => ApplySuggestion]_vars

\* A run over data with findings has completed and derived suggestions, and
\* the collections are the ones it was given.
C22_Witness ==
  /\ lastRun.outcome = "completed"
  /\ validationErrors # <<>>
  /\ aiSuggestions # <<>>
  /\ applied = "none"
  /\ Snapshot = lastRun.input
  /\ clients # <<>>

\* C21: once a run has returned, the stored list is exactly the list that run
\* computed from its collections (followed by what its AI pass added): nothing
\* of an earlier list is kept, merged in or removed.
C21_StoredListIsLastRunsList ==
  Returned =>
    IF lastRun.ai
    THEN \E ai \in AiOutcomes : validationErrors = ListOver(lastRun.input) \o ai
    ELSE validationErrors = ListOver(lastRun.input)

\* A second run, over the collections fix_duplicates has left, has replaced a
\* list with duplicate_id findings by one without.
C21_Witness ==
  /\ runs = 2
  /\ lastRun.outcome = "completed"
  /\ applied = "fix_duplicates"
  /\ lastRun.input = Snapshot
  /\ validationErrors # <<>>
  /\ \A i \in 1..Len(validationErrors) : validationErrors[i].type # "duplicate_id"

====
